---- MODULE Spec2Model ----
(***************************************************************************)
(* Render-frame lifecycle of ofVkRenderer (startRender / finishRender),    *)
(* with the graphics queue and the presentation engine running             *)
(* asynchronously to the single submitting CPU thread.                     *)
(*                                                                         *)
(* CPU side: one action per API call or recording block of startRender     *)
(* and finishRender, sequenced by pc.                                      *)
(* GPU side: the queue holds the submitted batches; a batch's layout       *)
(* transition and its completion are separate steps, ordered only by what  *)
(* the submit infos and barriers of the source ask for (wait semaphores,   *)
(* wait stage mask, barrier source stage mask) and by submission order of  *)
(* layout transitions.                                                     *)
(***************************************************************************)
EXTENDS Integers, Sequences, FiniteSets, TLC

\* ------------------------------------------------------------------ bounds
\* number of swapchain images (mSwapchain.getImageCount())
ImageCount == 2
\* number of frames a behaviour starts
MaxFrames == 3
\* number of API calls that return an error in one behaviour
MaxFailures == 1

\* ------------------------------------------------------------------ state
VARIABLES
  ndebug,            \* build: TRUE when assert() is compiled out (NDEBUG)
  pc,                \* position of the CPU thread in startRender/finishRender
  frame,             \* number of frames started so far
  failuresLeft,      \* number of API calls that may still return an error
  acqErr,            \* VkResult of this frame's acquireNextImage
  lastFailure,       \* the call of finishRender that failed in this frame
  swapIdx,           \* startRender's local uint32_t swapIdx
  mCurrentImageIndex,\* mSwapchain.getCurrentImageIndex()
  owner,             \* per swapchain image: "app" (acquired) or "pe"
  acqPending,        \* frame whose acquire has not yet signaled presentComplete (0: none)
  mDrawCmdBuffer,    \* vector of draw command buffers (recording state, target)
  allocatedDrawBuffers, \* command buffers handed out by vkAllocateCommandBuffers for drawing
  mPrePresentCommandBuffer,
  mPostPresentCommandBuffer,
  queue,             \* operations submitted to mQueue and not yet completed
  sem,               \* signaled state of the two binary semaphores
  layout,            \* current layout of every swapchain image
  log,               \* the steps the CPU thread performed in this frame
  lastTransition,    \* the layout the latest executed transition found
  lastPresent,       \* what the presentation engine found at its latest read
  renderSignaledBy,  \* frames whose draw submission has signaled renderComplete
  zeroedMemory,      \* run: TRUE when memory the program never wrote reads as zero
  sources,           \* Shader::Settings::sources: the stages in the order setup() visits them
  files,             \* per stage: the shader file on disk
  loadsLeft,         \* number of times Shader::setup() may still run
  shader,            \* the members of one of::vk::Shader
  storedLayouts,     \* the registry of Context: a layout object (handle) per key
  lastSetup,         \* what the latest run of Shader::setup() did
  surface,           \* what vkGetPhysicalDeviceSurfaceFormatsKHR reports for mWindowSurface
  process,           \* "running", "exited" (ofExit) or "aborted" (a failed assert)
  setupPc,           \* number of steps of ofVkRenderer::setup() that have been made
  setupLog,          \* the steps made, in order
  diagnostics,       \* what setup() wrote to ofLogError()
  mWindowColorFormat,
  mSetupCommandBuffer, \* handle of the setup command buffer, VK_NULL_HANDLE when there is none
  setupCmd,          \* what the device saw of setup command buffers
  lateCallsLeft,     \* calls of create/flushSetupCommandBuffer still to come after setup()
  mContext,          \* "null" or "setup": the of::vk::Context of the renderer
  mShaders,          \* per shader of the renderer: its bindings (getBindings())
  mDescriptorSetLayouts, \* per shader: the layout createDescriptorSetLayout() returned
  mDescriptorPool,
  mDescriptorSets,   \* result of vkAllocateDescriptorSets and the handles it gave
  descriptorUpdate,  \* the writes handed to vkUpdateDescriptorSets
  mPipelines,
  drawsLeft,         \* calls of draw() still to come
  drawn,             \* the commands draw() recorded into the current draw command buffer
  stageInputs,       \* shaderResources.stage_inputs of the vertex stage, with their decorations
  mVertexInfo        \* Shader::mVertexInfo: attribute and bindingDescription

vars == << ndebug, pc, frame, failuresLeft, acqErr, lastFailure, swapIdx,
           mCurrentImageIndex, owner, acqPending, mDrawCmdBuffer,
           allocatedDrawBuffers, mPrePresentCommandBuffer,
           mPostPresentCommandBuffer, queue, sem, layout, log,
           lastTransition, lastPresent, renderSignaledBy,
           zeroedMemory, sources, files, loadsLeft, shader,
           storedLayouts, lastSetup,
           surface, process, setupPc, setupLog, diagnostics, mWindowColorFormat,
           mSetupCommandBuffer, setupCmd, lateCallsLeft, mContext, mShaders,
           mDescriptorSetLayouts, mDescriptorPool, mDescriptorSets,
           descriptorUpdate, mPipelines, drawsLeft, drawn,
           stageInputs, mVertexInfo >>

\* the state of the frame loop (startRender / finishRender, queue, swapchain)
frameVars == << pc, frame, acqErr, lastFailure, swapIdx,
                mCurrentImageIndex, owner, acqPending, mDrawCmdBuffer,
                allocatedDrawBuffers, mPrePresentCommandBuffer,
                mPostPresentCommandBuffer, queue, sem, layout, log,
                lastTransition, lastPresent, renderSignaledBy >>

\* the state of shader loading and reflection (of::vk::Shader)
shaderVars == << zeroedMemory, sources, files, loadsLeft, shader,
                 storedLayouts, lastSetup >>

\* the state of ofVkRenderer::setup()
setupVars == << surface, process, setupPc, setupLog, diagnostics, mWindowColorFormat,
                mSetupCommandBuffer, setupCmd, lateCallsLeft, mContext, mShaders,
                mDescriptorSetLayouts, mDescriptorPool, mDescriptorSets,
                descriptorUpdate, mPipelines >>

\* the state of ofVkRenderer::draw()
drawVars == << drawsLeft, drawn >>

\* the state of of::vk::Shader::processVertexInputs
vertexVars == << stageInputs, mVertexInfo >>

Images == 0 .. (ImageCount - 1)

\* an index outside the vector: what an uninitialised swapIdx may also hold
OutOfRange == ImageCount

NoImage == 0 - 1

\* ------------------------------------------------------- program constants
\* VkResult values acquireNextImage can return
AcquireResults == { "SUCCESS", "OUT_OF_DATE", "DEVICE_LOST" }

\* assert( !err ): passes when the call succeeded, and is compiled out under NDEBUG
AssertPasses(ok) == ok \/ ndebug

\* the result of an API call: success always, an error while the failure budget lasts
CallResults == IF failuresLeft > 0 THEN { TRUE, FALSE } ELSE { TRUE }

\* a freshly allocated (or reset) command buffer: nothing recorded
FreshCmdBuffer == [ state |-> "initial", target |-> NoImage ]

\* a queue operation that is neither a render pass nor a barrier moves no layout
NoLayout == "NONE"

\* VkSubmitInfo of the draw submission: waits on presentComplete at BOTTOM_OF_PIPE,
\* signals renderComplete; the buffer's render pass takes its attachment from
\* initialLayout UNDEFINED to finalLayout COLOR_ATTACHMENT_OPTIMAL
DrawSubmitInfo(buf) ==
  [ kind |-> "draw", img |-> buf.target, buffer |-> mCurrentImageIndex, frame |-> frame,
    wait |-> { "presentComplete" }, waitStage |-> "BOTTOM_OF_PIPE",
    signal |-> { "renderComplete" }, srcStage |-> "NONE",
    oldLayout |-> "UNDEFINED", newLayout |-> "COLOR_ATTACHMENT_OPTIMAL",
    started |-> FALSE ]

\* VkSubmitInfo of the pre-present submission: no semaphores; the buffer holds one
\* image barrier COLOR_ATTACHMENT_OPTIMAL -> PRESENT_SRC_KHR, TOP_OF_PIPE -> TOP_OF_PIPE
PrePresentSubmitInfo(buf) ==
  [ kind |-> "pre", img |-> buf.target, buffer |-> 0, frame |-> frame,
    wait |-> {}, waitStage |-> "NONE",
    signal |-> {}, srcStage |-> "TOP_OF_PIPE",
    oldLayout |-> "COLOR_ATTACHMENT_OPTIMAL", newLayout |-> "PRESENT_SRC_KHR",
    started |-> FALSE ]

\* VkSubmitInfo of the post-present submission: no semaphores; the buffer holds one
\* image barrier PRESENT_SRC_KHR -> COLOR_ATTACHMENT_OPTIMAL, ALL_COMMANDS -> TOP_OF_PIPE
PostPresentSubmitInfo(buf) ==
  [ kind |-> "post", img |-> buf.target, buffer |-> 0, frame |-> frame,
    wait |-> {}, waitStage |-> "NONE",
    signal |-> {}, srcStage |-> "ALL_COMMANDS",
    oldLayout |-> "PRESENT_SRC_KHR", newLayout |-> "COLOR_ATTACHMENT_OPTIMAL",
    started |-> FALSE ]

\* the present request queuePresent enqueues: it waits on the given semaphores
PresentInfo(imageIndex, waitSemaphores) ==
  [ kind |-> "present", img |-> imageIndex, buffer |-> 0, frame |-> frame,
    wait |-> waitSemaphores, waitStage |-> "NONE",
    signal |-> {}, srcStage |-> "NONE",
    oldLayout |-> NoLayout, newLayout |-> NoLayout,
    started |-> FALSE ]

\* ------------------------------------------------ of::vk::Shader: data
\* VkShaderStageFlagBits of the two stages the shader is built from
VK_SHADER_STAGE_VERTEX_BIT == 1
VK_SHADER_STAGE_FRAGMENT_BIT == 16
\* VkDescriptorType of every reflected uniform block
VK_DESCRIPTOR_TYPE_UNIFORM_BUFFER_DYNAMIC == 8

Stages == { VK_SHADER_STAGE_VERTEX_BIT, VK_SHADER_STAGE_FRAGMENT_BIT }

\* iteration order of mSpvCrossCompilers, a map keyed by stage bit
StageOrder == << VK_SHADER_STAGE_VERTEX_BIT, VK_SHADER_STAGE_FRAGMENT_BIT >>

\* names of the uniform blocks a shader binary may declare
UniformNames == { "Bar", "Foo" }

\* iteration order of mUniforms, a map keyed by block name
NameOrder == << "Bar", "Foo" >>

\* largest descriptor set index a block may be decorated with
MaxSet == 2
\* binding numbers a block may be decorated with
BindingNumbers == { 0, 1 }
\* declared struct sizes (bytes) a block of the given name may have
StorageSizes(n) == IF n = "Foo" THEN { 16, 32 } ELSE { 16 }
\* largest number of uniform blocks one binary declares
MaxBlocks == 2
\* number of times setup() runs on one Shader
MaxLoads == 3

\* a stage without entry in mSpvHash
NoHash == 0 - 1
\* a stage without entry in mModules
NoModule == 0
\* std::vector<uint32_t> spirCode as declared in setup(): empty
EmptySpirCode == << >>

\* the module header every SPIR-V binary starts with
SpvHeader == [ op |-> "Header", name |-> "", set |-> 0, binding |-> 0, size |-> 0 ]

\* the declaration of one uniform block inside a binary
UniformBlock(name, set, binding, size) ==
  [ op |-> "UniformBlock", name |-> name, set |-> set, binding |-> binding, size |-> size ]

\* a name without entry in mUniforms
NoUniform ==
  [ present |-> FALSE, name |-> "", set |-> 0, size |-> 0,
    binding |-> [ binding |-> 0, descriptorType |-> 0, descriptorCount |-> 0,
                  stageFlags |-> 0 ] ]

\* a shader file that does not exist
MissingFile == [ exists |-> FALSE, ext |-> "spv", compiles |-> FALSE, code |-> EmptySpirCode ]

\* the members of a Shader before setup() has run
FreshShader ==
  [ mSpvHash |-> [ st \in Stages |-> NoHash ],
    mModules |-> [ st \in Stages |-> NoModule ],
    mStages |-> << >>,
    mSpvCrossCompilers |-> [ st \in Stages |-> [ present |-> FALSE, code |-> EmptySpirCode ] ],
    mUniforms |-> [ n \in UniformNames |-> NoUniform ],
    mDescriptorSetLayoutKeys |-> << >>,
    modulesCreated |-> 0 ]

\* bookkeeping of one stage: its most recent load and the one before
NoLoad ==
  [ seen |-> FALSE, loaded |-> FALSE, code |-> EmptySpirCode, dirty |-> FALSE,
    hadPrev |-> FALSE, prev |-> EmptySpirCode ]

NoSetup ==
  [ load |-> [ st \in Stages |-> NoLoad ], attempts |-> << >>, errors |-> << >>,
    reflected |-> FALSE, built |-> FALSE, count |-> 0 ]

\* no Shader has been constructed
ShaderNotConstructed ==
  /\ zeroedMemory = FALSE
  /\ sources = StageOrder
  /\ files = [ st \in Stages |-> MissingFile ]
  /\ loadsLeft = 0
  /\ shader = FreshShader
  /\ storedLayouts = {}
  /\ lastSetup = NoSetup

\* ------------------------------------------- ofVkRenderer::setup: data
VK_NULL_HANDLE == 0
VK_FORMAT_UNDEFINED == 0
VK_FORMAT_B8G8R8A8_UNORM == 44
VK_STRUCTURE_TYPE_WRITE_DESCRIPTOR_SET == 35

\* largest number of formats a surface reports
MaxFormats == 2
\* calls of createSetupCommandBuffer / flushSetupCommandBuffer made after setup()
MaxLateCalls == 2
\* largest number of shaders setupDescriptorPool is given
MaxShaders == 2
\* calls of draw() in one behaviour
MaxDraws == 2
\* largest numbers of vertices and of indices of a mesh
MaxVertices == 1
MaxIndices == 1

\* the formats a surface may list: none preferred, BGRA8, RGBA8 (VK_FORMAT_R8G8B8A8_UNORM)
FormatValues == { VK_FORMAT_UNDEFINED, VK_FORMAT_B8G8R8A8_UNORM, 37 }
\* the colour spaces it may list them with: sRGB non-linear, Display-P3 non-linear
ColorSpaceValues == { 0, 1000104001 }

VkSurfaceFormatKHR(format, colorSpace) == [ format |-> format, colorSpace |-> colorSpace ]

\* an element of std::vector<VkSurfaceFormatKHR> surfaceFormats( formatCount ) that the
\* query has not filled in
ZeroSurfaceFormat == VkSurfaceFormatKHR(0, 0)

\* mWindowColorFormat before querySurfaceCapabilities has chosen
NoFormat == [ chosen |-> FALSE, format |-> 0, colorSpace |-> 0 ]

\* a surface nothing has been asked of
NoSurface == [ countQueryOk |-> TRUE, formats |-> << >> ]

\* the steps of setup() in the order it makes them, with the descriptor sets written
\* after the pipelines are built (mutant)
SetupOrder_PipelinesFirst ==
  << "querySurfaceCapabilities", "createCommandPool", "createSetupCommandBuffer",
     "setupSwapChain", "createCommandBuffers", "setupDepthStencil", "setupRenderPass",
     "createPipelineCache", "setupFrameBuffer", "flushSetupCommandBuffer",
     "createSemaphores", "Context_setup", "setupShaders", "setupDescriptorPool",
     "setupPipelines", "setupDescriptorSets" >>

\* the steps of setup() in the order it makes them
SetupOrder ==
  << "querySurfaceCapabilities", "createCommandPool", "createSetupCommandBuffer",
     "setupSwapChain", "createCommandBuffers", "setupDepthStencil", "setupRenderPass",
     "createPipelineCache", "setupFrameBuffer", "flushSetupCommandBuffer",
     "createSemaphores", "Context_setup", "setupShaders", "setupDescriptorPool",
     "setupDescriptorSets", "setupPipelines" >>

\* the steps of which the model keeps only that they were made
PlainSteps ==
  { "createCommandPool", "createCommandBuffers", "setupRenderPass", "createPipelineCache",
    "setupFrameBuffer", "createSemaphores" }

\* what the device has seen of setup command buffers: how many were allocated, how often
\* the current one was submitted, whether it is still executing, how many were freed,
\* whether one was freed while executing, and how many calls of flush found no buffer
NoSetupCmd ==
  [ allocated |-> 0, submits |-> 0, pending |-> FALSE, freed |-> 0,
    freedPending |-> FALSE, flushedNothing |-> 0,
    state |-> "none", transitions |-> << >>, executed |-> << >> ]

\* mDescriptorPool before vkCreateDescriptorPool
NoPool == [ created |-> FALSE, maxSets |-> 0, typeCounts |-> << >> ]

\* mDescriptorSets before vkAllocateDescriptorSets
NoDescriptorSets == [ requested |-> FALSE, allocated |-> FALSE, sets |-> << >> ]

\* nothing handed to vkUpdateDescriptorSets
NoUpdate == [ submitted |-> FALSE, writes |-> << >> ]

\* an element of std::vector<VkWriteDescriptorSet> writeDescriptorSets( n ) that was
\* never assigned: every member zero
ZeroWrite ==
  [ sType |-> 0, dstSet |-> VK_NULL_HANDLE, dstBinding |-> 0, descriptorCount |-> 0,
    descriptorType |-> 0, pBufferInfo |-> "null" ]

VK_POLYGON_MODE_FILL == 0
VK_POLYGON_MODE_LINE == 1

\* of::vk::GraphicsPipelineState as constructed: no shader (0, otherwise the place of the
\* shader in mShaders), no render pass, no layout,
\* rasterization with filled polygons
GraphicsPipelineState ==
  [ mShader |-> 0, mRenderPass |-> "none", mLayout |-> 0,
    polygonMode |-> VK_POLYGON_MODE_FILL ]

\* a VkPipeline: the handle and the state the object it refers to was created from
NullPipeline == [ handle |-> VK_NULL_HANDLE, state |-> GraphicsPipelineState ]

NoPipelines == [ solid |-> NullPipeline, wireframe |-> NullPipeline ]

\* the members setup() fills, before setup() has been called
MembersBeforeSetup ==
  /\ process = "running"
  /\ setupPc = 0
  /\ setupLog = << >>
  /\ diagnostics = << >>
  /\ mWindowColorFormat = NoFormat
  /\ mSetupCommandBuffer = VK_NULL_HANDLE
  /\ setupCmd = NoSetupCmd
  /\ mContext = "null"
  /\ mShaders = << >>
  /\ mDescriptorSetLayouts = << >>
  /\ mDescriptorPool = NoPool
  /\ mDescriptorSets = NoDescriptorSets
  /\ descriptorUpdate = NoUpdate
  /\ mPipelines = NoPipelines

\* setup() is not called
SetupNotRun ==
  /\ surface = NoSurface
  /\ lateCallsLeft = 0
  /\ MembersBeforeSetup

\* mVertexInfo of a Shader that has not been reflected
NoVertexInfo ==
  [ attribute |-> << >>, bindingDescription |-> << >>,
    vi |-> [ set |-> FALSE, vertexBindingDescriptionCount |-> 0,
             vertexAttributeDescriptionCount |-> 0 ] ]

\* processVertexInputs is not called
NoVertexInputs ==
  /\ stageInputs = << >>
  /\ mVertexInfo = NoVertexInfo

\* draw() is not called
NothingDrawn ==
  /\ drawsLeft = 0
  /\ drawn = << >>

\* ------------------------------------------------------------------- Init
InitRenderer ==
  /\ ndebug \in BOOLEAN
  /\ pc = "Idle"
  /\ frame = 0
  /\ acqErr = "SUCCESS"
  /\ lastFailure = "none"
  /\ swapIdx = 0
  /\ mCurrentImageIndex = 0
  /\ owner = [ i \in Images |-> "pe" ]
  /\ acqPending = 0
  /\ mDrawCmdBuffer = << >>
  /\ allocatedDrawBuffers = 0
  /\ mPrePresentCommandBuffer = FreshCmdBuffer
  /\ mPostPresentCommandBuffer = FreshCmdBuffer
  /\ queue = << >>
  /\ sem = [ presentComplete |-> FALSE, renderComplete |-> FALSE ]
  /\ layout = [ i \in Images |-> "UNDEFINED" ]
  /\ log = << >>
  /\ lastTransition = [ kind |-> "none", frame |-> 0, found |-> NoLayout ]
  /\ lastPresent = [ frame |-> 0, found |-> NoLayout, drawSignaled |-> TRUE ]
  /\ renderSignaledBy = {}

\* any API call may fail, MaxFailures times in all
Init ==
  InitRenderer /\ failuresLeft = MaxFailures /\ ShaderNotConstructed /\ SetupNotRun
  /\ NothingDrawn
  /\ NoVertexInputs

\* every API call succeeds
InitNoFailure ==
  InitRenderer /\ failuresLeft = 0 /\ ShaderNotConstructed /\ SetupNotRun
  /\ NothingDrawn
  /\ NoVertexInputs

\* ------------------------------------------------------------ startRender

\* Swapchain::acquireNextImage( presentComplete, &swapIdx ): on success an image the
\* application does not hold is returned at once, becomes the current image, and
\* presentComplete will be signaled once the presentation engine has let go of it;
\* on failure nothing is acquired and *swapIdx is not written
Swapchain_acquireNextImage(res, i) ==
  IF res = "SUCCESS"
  THEN /\ owner[i] = "pe"
       /\ swapIdx' = i
       /\ mCurrentImageIndex' = i
       /\ owner' = [ owner EXCEPT ![i] = "app" ]
       /\ acqPending' = frame + 1
  ELSE /\ swapIdx' = i
       /\ UNCHANGED << mCurrentImageIndex, owner, acqPending >>

\* what an uninitialised swapIdx may hold after a failed acquire
GarbageIndices == Images \cup { OutOfRange }

\* what startRender surfaces for a result of acquireNextImage
StartRenderOutcome(res) == IF AssertPasses(res = "SUCCESS") THEN "continues" ELSE "aborts"

\* startRender, up to assert( !err )
AcquireNextImage ==
  /\ UNCHANGED << shaderVars, setupVars, drawVars, vertexVars >>
  /\ pc = "Idle"
  /\ frame < MaxFrames
  /\ \E res \in AcquireResults :
       /\ (res # "SUCCESS") => failuresLeft > 0
       /\ \E i \in (IF res = "SUCCESS" THEN Images ELSE GarbageIndices) :
            Swapchain_acquireNextImage(res, i)
       /\ acqErr' = res
       /\ failuresLeft' = IF res = "SUCCESS" THEN failuresLeft ELSE failuresLeft - 1
       /\ pc' = IF StartRenderOutcome(res) = "continues" THEN "sr_reset" ELSE "Aborted"
  /\ frame' = frame + 1
  /\ lastFailure' = "none"
  /\ log' = << "acquire" >>
  /\ UNCHANGED << ndebug, mDrawCmdBuffer, allocatedDrawBuffers,
                  mPrePresentCommandBuffer, mPostPresentCommandBuffer, queue, sem,
                  layout, lastTransition, lastPresent, renderSignaledBy >>

\* startRender allocating the draw buffers in every frame, without the size check
ResetOrAllocate_EveryFrame ==
  /\ UNCHANGED << shaderVars, setupVars, drawVars, vertexVars >>
  /\ pc = "sr_reset"
  /\ mDrawCmdBuffer' = [ j \in 1 .. ImageCount |-> FreshCmdBuffer ]
  /\ allocatedDrawBuffers' = allocatedDrawBuffers + ImageCount
  /\ pc' = "sr_begin"
  /\ log' = Append(log, "resetOrAllocate")
  /\ UNCHANGED << ndebug, frame, failuresLeft, acqErr, lastFailure, swapIdx,
                  mCurrentImageIndex, owner, acqPending, mPrePresentCommandBuffer,
                  mPostPresentCommandBuffer, queue, sem, layout, lastTransition,
                  lastPresent, renderSignaledBy >>

\* startRender: reset the draw buffer of this image, or allocate all of them
ResetOrAllocate ==
  /\ UNCHANGED << shaderVars, setupVars, drawVars, vertexVars >>
  /\ pc = "sr_reset"
  /\ IF Len(mDrawCmdBuffer) = ImageCount
     THEN IF swapIdx \in Images
          THEN /\ mDrawCmdBuffer' = [ mDrawCmdBuffer EXCEPT ![swapIdx + 1] = FreshCmdBuffer ]
               /\ pc' = "sr_begin"
               /\ UNCHANGED allocatedDrawBuffers
          ELSE /\ pc' = "Crashed"
               /\ UNCHANGED << mDrawCmdBuffer, allocatedDrawBuffers >>
     ELSE /\ mDrawCmdBuffer' = [ j \in 1 .. ImageCount |-> FreshCmdBuffer ]
          /\ allocatedDrawBuffers' = allocatedDrawBuffers + ImageCount
          /\ pc' = "sr_begin"
  /\ log' = Append(log, "resetOrAllocate")
  /\ UNCHANGED << ndebug, frame, failuresLeft, acqErr, lastFailure, swapIdx,
                  mCurrentImageIndex, owner, acqPending, mPrePresentCommandBuffer,
                  mPostPresentCommandBuffer, queue, sem, layout, lastTransition,
                  lastPresent, renderSignaledBy >>

\* beginRenderPass( cmdBuf_, frameBuf_ ): the buffer records a render pass on frameBuf_
beginRenderPass(cmdBuf, frameBuf) == [ cmdBuf EXCEPT !.target = frameBuf ]

\* startRender: mContext->begin( swapIdx ); beginDrawCommandBuffer( mDrawCmdBuffer[swapIdx] )
BeginDrawCommandBuffer ==
  /\ UNCHANGED << shaderVars, setupVars, drawVars, vertexVars >>
  /\ pc = "sr_begin"
  /\ IF swapIdx \in Images
     THEN /\ mDrawCmdBuffer' =
               [ mDrawCmdBuffer EXCEPT ![swapIdx + 1] =
                   beginRenderPass([ @ EXCEPT !.state = "recording" ], mCurrentImageIndex) ]
          /\ log' = log \o << "beginDraw", "beginRenderPass" >>
          /\ pc' = "Recording"
     ELSE /\ pc' = "Crashed"
          /\ UNCHANGED << mDrawCmdBuffer, log >>
  /\ UNCHANGED << ndebug, frame, failuresLeft, acqErr, lastFailure, swapIdx,
                  mCurrentImageIndex, owner, acqPending, allocatedDrawBuffers,
                  mPrePresentCommandBuffer, mPostPresentCommandBuffer, queue, sem,
                  layout, lastTransition, lastPresent, renderSignaledBy >>

\* ----------------------------------------------------------- finishRender

\* endDrawCommandBuffer ending the draw buffer at index 0 whatever the current image
EndDrawCommandBuffer_FirstBuffer ==
  /\ UNCHANGED << shaderVars, setupVars, drawVars, vertexVars >>
  /\ pc = "Recording"
  /\ mDrawCmdBuffer' =
       [ mDrawCmdBuffer EXCEPT ![1] =
           [ @ EXCEPT !.state = IF @ = "recording" THEN "executable" ELSE "invalid" ] ]
  /\ log' = log \o << "endRenderPass", "endDraw" >>
  /\ pc' = "fr_submit"
  /\ UNCHANGED << ndebug, frame, failuresLeft, acqErr, lastFailure, swapIdx,
                  mCurrentImageIndex, owner, acqPending, allocatedDrawBuffers,
                  mPrePresentCommandBuffer, mPostPresentCommandBuffer, queue, sem,
                  layout, lastTransition, lastPresent, renderSignaledBy >>

\* endDrawCommandBuffer: endRenderPass, then vkEndCommandBuffer, both on the draw
\* buffer of the current image; a buffer that is not recording cannot be ended
EndDrawCommandBuffer ==
  /\ UNCHANGED << shaderVars, setupVars, drawVars, vertexVars >>
  /\ pc = "Recording"
  /\ mDrawCmdBuffer' =
       [ mDrawCmdBuffer EXCEPT ![mCurrentImageIndex + 1] =
           [ @ EXCEPT !.state = IF @ = "recording" THEN "executable" ELSE "invalid" ] ]
  /\ log' = log \o << "endRenderPass", "endDraw" >>
  /\ pc' = "fr_submit"
  /\ UNCHANGED << ndebug, frame, failuresLeft, acqErr, lastFailure, swapIdx,
                  mCurrentImageIndex, owner, acqPending, allocatedDrawBuffers,
                  mPrePresentCommandBuffer, mPostPresentCommandBuffer, queue, sem,
                  layout, lastTransition, lastPresent, renderSignaledBy >>

\* vkQueueSubmit: a successful call appends the batch to the queue
vkQueueSubmit(ok, submitInfo) == IF ok THEN Append(queue, submitInfo) ELSE queue

\* finishRender: submit the draw buffer of the current image, assert( !err )
SubmitDraw ==
  /\ UNCHANGED << shaderVars, setupVars, drawVars, vertexVars >>
  /\ pc = "fr_submit"
  /\ \E ok \in CallResults :
       /\ queue' = vkQueueSubmit(ok, DrawSubmitInfo(mDrawCmdBuffer[mCurrentImageIndex + 1]))
       /\ failuresLeft' = IF ok THEN failuresLeft ELSE failuresLeft - 1
       /\ lastFailure' = IF ok THEN lastFailure ELSE "submitDraw"
       /\ pc' = IF AssertPasses(ok) THEN "fr_pre" ELSE "Aborted"
  /\ log' = Append(log, "submitDraw")
  /\ UNCHANGED << ndebug, frame, acqErr, swapIdx, mCurrentImageIndex, owner,
                  acqPending, mDrawCmdBuffer, allocatedDrawBuffers,
                  mPrePresentCommandBuffer, mPostPresentCommandBuffer, sem, layout,
                  lastTransition, lastPresent, renderSignaledBy >>

\* finishRender without its pre-present block: the draw submission is followed
\* directly by queuePresent
SubmitPrePresent_Skipped ==
  /\ UNCHANGED << shaderVars, setupVars, drawVars, vertexVars >>
  /\ pc = "fr_pre"
  /\ pc' = "fr_present"
  /\ UNCHANGED << ndebug, frame, failuresLeft, acqErr, lastFailure, swapIdx,
                  mCurrentImageIndex, owner, acqPending, mDrawCmdBuffer,
                  allocatedDrawBuffers, mPrePresentCommandBuffer,
                  mPostPresentCommandBuffer, queue, sem, layout, log,
                  lastTransition, lastPresent, renderSignaledBy >>

\* finishRender: record the pre-present barrier on the current image and submit it;
\* the result of the submission is stored in err and not looked at
SubmitPrePresent ==
  /\ UNCHANGED << shaderVars, setupVars, drawVars, vertexVars >>
  /\ pc = "fr_pre"
  /\ mPrePresentCommandBuffer' = [ state |-> "executable", target |-> mCurrentImageIndex ]
  /\ \E ok \in CallResults :
       /\ queue' = vkQueueSubmit(ok, PrePresentSubmitInfo(mPrePresentCommandBuffer'))
       /\ failuresLeft' = IF ok THEN failuresLeft ELSE failuresLeft - 1
       /\ lastFailure' = IF ok THEN lastFailure ELSE "submitPrePresent"
  /\ log' = Append(log, "submitPrePresent")
  /\ pc' = "fr_present"
  /\ UNCHANGED << ndebug, frame, acqErr, swapIdx, mCurrentImageIndex, owner,
                  acqPending, mDrawCmdBuffer, allocatedDrawBuffers,
                  mPostPresentCommandBuffer, sem, layout, lastTransition,
                  lastPresent, renderSignaledBy >>

\* Swapchain::queuePresent( queue, imageIndex, waitSemaphores ): a successful call
\* hands the image to the presentation engine, which reads it once the semaphores
\* are signaled; a failed call enqueues nothing
Swapchain_queuePresent(ok, imageIndex, waitSemaphores) ==
  IF ok
  THEN /\ queue' = Append(queue, PresentInfo(imageIndex, waitSemaphores))
       /\ owner' = [ owner EXCEPT ![imageIndex] = "pe" ]
  ELSE UNCHANGED << queue, owner >>

\* finishRender: queuePresent the current image, waiting on renderComplete; the
\* call's result is dropped
QueuePresent ==
  /\ UNCHANGED << shaderVars, setupVars, drawVars, vertexVars >>
  /\ pc = "fr_present"
  /\ \E ok \in CallResults :
       /\ Swapchain_queuePresent(ok, mCurrentImageIndex, { "renderComplete" })
       /\ failuresLeft' = IF ok THEN failuresLeft ELSE failuresLeft - 1
       /\ lastFailure' = IF ok THEN lastFailure ELSE "queuePresent"
  /\ log' = Append(log, "queuePresent")
  /\ pc' = "fr_post"
  /\ UNCHANGED << ndebug, frame, acqErr, swapIdx, mCurrentImageIndex, acqPending,
                  mDrawCmdBuffer, allocatedDrawBuffers, mPrePresentCommandBuffer,
                  mPostPresentCommandBuffer, sem, layout, lastTransition,
                  lastPresent, renderSignaledBy >>

\* finishRender: record the post-present barrier on the current image and submit
\* it; err is overwritten by the next call
SubmitPostPresent ==
  /\ UNCHANGED << shaderVars, setupVars, drawVars, vertexVars >>
  /\ pc = "fr_post"
  /\ mPostPresentCommandBuffer' = [ state |-> "executable", target |-> mCurrentImageIndex ]
  /\ \E ok \in CallResults :
       /\ queue' = vkQueueSubmit(ok, PostPresentSubmitInfo(mPostPresentCommandBuffer'))
       /\ failuresLeft' = IF ok THEN failuresLeft ELSE failuresLeft - 1
       /\ lastFailure' = IF ok THEN lastFailure ELSE "submitPostPresent"
  /\ log' = Append(log, "submitPostPresent")
  /\ pc' = "fr_wait"
  /\ UNCHANGED << ndebug, frame, acqErr, swapIdx, mCurrentImageIndex, owner,
                  acqPending, mDrawCmdBuffer, allocatedDrawBuffers,
                  mPrePresentCommandBuffer, sem, layout, lastTransition,
                  lastPresent, renderSignaledBy >>

\* vkQueueWaitIdle returns success once nothing submitted is pending, or an error
vkQueueWaitIdle(ok) == (~ok) \/ queue = << >>

\* finishRender: err = vkQueueWaitIdle( mQueue ), then return
QueueWaitIdle ==
  /\ UNCHANGED << shaderVars, setupVars, drawVars, vertexVars >>
  /\ pc = "fr_wait"
  /\ \E ok \in CallResults :
       /\ vkQueueWaitIdle(ok)
       /\ failuresLeft' = IF ok THEN failuresLeft ELSE failuresLeft - 1
       /\ lastFailure' = IF ok THEN lastFailure ELSE "queueWaitIdle"
  /\ log' = Append(log, "queueWaitIdle")
  /\ pc' = "Idle"
  /\ UNCHANGED << ndebug, frame, acqErr, swapIdx, mCurrentImageIndex, owner,
                  acqPending, mDrawCmdBuffer, allocatedDrawBuffers,
                  mPrePresentCommandBuffer, mPostPresentCommandBuffer, queue, sem,
                  layout, lastTransition, lastPresent, renderSignaledBy >>

\* ------------------------------------------- graphics queue (asynchronous)

RemoveAt(q, k) == SubSeq(q, 1, k - 1) \o SubSeq(q, k + 1, Len(q))

AllSignaled(semaphores) == \A n \in semaphores : sem[n]

\* the semaphore state after a batch has waited on `waits` and signaled `signals`
AfterBatch(waits, signals) ==
  [ n \in DOMAIN sem |-> IF n \in signals THEN TRUE
                         ELSE IF n \in waits THEN FALSE ELSE sem[n] ]

\* pWaitDstStageMask: the semaphore wait holds back only the named stage and the
\* stages after it; attachment writes happen before BOTTOM_OF_PIPE
WaitHoldsAttachmentWrites(waitStage) ==
  waitStage \in { "TOP_OF_PIPE", "COLOR_ATTACHMENT_OUTPUT", "ALL_COMMANDS" }

\* layout transitions execute in submission order: every transition submitted before
\* position k has been made
TransitionsBeforeDone(k) ==
  \A j \in 1 .. (k - 1) :
     /\ queue[j].kind \notin { "pre", "post" }
     /\ queue[j].kind = "draw" => queue[j].started

\* every command submitted before position k has completed
CommandsBeforeDone(k) ==
  \A j \in 1 .. (k - 1) : queue[j].kind \notin { "draw", "pre", "post" }

\* srcStageMask of a barrier: ALL_COMMANDS waits for all earlier commands,
\* TOP_OF_PIPE waits for none (only the order of layout transitions remains)
BarrierMayExecute(k) ==
  IF queue[k].srcStage = "ALL_COMMANDS"
  THEN CommandsBeforeDone(k)
  ELSE TransitionsBeforeDone(k)

\* a render pass or barrier moves the layout of the image it names; a buffer that
\* names no image moves none
Transition(op) ==
  IF op.img \in Images
  THEN /\ lastTransition' = [ kind |-> op.kind, frame |-> op.frame, found |-> layout[op.img] ]
       /\ layout' = [ layout EXCEPT ![op.img] = op.newLayout ]
  ELSE UNCHANGED << lastTransition, layout >>

\* the draw batch begins its render pass: the attachment is transitioned and written
GpuBeginRenderPass(k) ==
  /\ UNCHANGED << shaderVars, setupVars, drawVars, vertexVars >>
  /\ queue[k].kind = "draw"
  /\ ~queue[k].started
  /\ TransitionsBeforeDone(k)
  /\ WaitHoldsAttachmentWrites(queue[k].waitStage) => AllSignaled(queue[k].wait)
  /\ Transition(queue[k])
  /\ queue' = [ queue EXCEPT ![k].started = TRUE ]
  /\ UNCHANGED << ndebug, pc, frame, failuresLeft, acqErr, lastFailure, swapIdx,
                  mCurrentImageIndex, owner, acqPending, mDrawCmdBuffer,
                  allocatedDrawBuffers, mPrePresentCommandBuffer,
                  mPostPresentCommandBuffer, sem, log, lastPresent,
                  renderSignaledBy >>

\* the draw batch completes: its semaphore wait is over, its semaphores are signaled
GpuCompleteDraw(k) ==
  /\ UNCHANGED << shaderVars, setupVars, drawVars, vertexVars >>
  /\ queue[k].kind = "draw"
  /\ queue[k].started
  /\ AllSignaled(queue[k].wait)
  /\ sem' = AfterBatch(queue[k].wait, queue[k].signal)
  /\ renderSignaledBy' = IF "renderComplete" \in queue[k].signal
                         THEN renderSignaledBy \cup { queue[k].frame }
                         ELSE renderSignaledBy
  /\ queue' = RemoveAt(queue, k)
  /\ UNCHANGED << ndebug, pc, frame, failuresLeft, acqErr, lastFailure, swapIdx,
                  mCurrentImageIndex, owner, acqPending, mDrawCmdBuffer,
                  allocatedDrawBuffers, mPrePresentCommandBuffer,
                  mPostPresentCommandBuffer, layout, log, lastTransition,
                  lastPresent >>

\* a pre-present or post-present batch executes its image barrier
GpuBarrier(k) ==
  /\ UNCHANGED << shaderVars, setupVars, drawVars, vertexVars >>
  /\ queue[k].kind \in { "pre", "post" }
  /\ BarrierMayExecute(k)
  /\ Transition(queue[k])
  /\ queue' = RemoveAt(queue, k)
  /\ UNCHANGED << ndebug, pc, frame, failuresLeft, acqErr, lastFailure, swapIdx,
                  mCurrentImageIndex, owner, acqPending, mDrawCmdBuffer,
                  allocatedDrawBuffers, mPrePresentCommandBuffer,
                  mPostPresentCommandBuffer, sem, log, lastPresent,
                  renderSignaledBy >>

\* ---------------------------------------------------- presentation engine

\* the presentation engine starts reading a queued image once the present
\* request's semaphores are signaled; requests are served in order
PresentImage(k) ==
  /\ UNCHANGED << shaderVars, setupVars, drawVars, vertexVars >>
  /\ queue[k].kind = "present"
  /\ \A j \in 1 .. (k - 1) : queue[j].kind # "present"
  /\ AllSignaled(queue[k].wait)
  /\ sem' = AfterBatch(queue[k].wait, queue[k].signal)
  /\ lastPresent' = [ frame |-> queue[k].frame,
                      found |-> layout[queue[k].img],
                      drawSignaled |-> queue[k].frame \in renderSignaledBy ]
  /\ queue' = RemoveAt(queue, k)
  /\ UNCHANGED << ndebug, pc, frame, failuresLeft, acqErr, lastFailure, swapIdx,
                  mCurrentImageIndex, owner, acqPending, mDrawCmdBuffer,
                  allocatedDrawBuffers, mPrePresentCommandBuffer,
                  mPostPresentCommandBuffer, layout, log, lastTransition,
                  renderSignaledBy >>

\* the presentation engine lets go of the acquired image: presentComplete is signaled
SignalPresentComplete ==
  /\ UNCHANGED << shaderVars, setupVars, drawVars, vertexVars >>
  /\ acqPending # 0
  /\ sem' = [ sem EXCEPT !.presentComplete = TRUE ]
  /\ acqPending' = 0
  /\ UNCHANGED << ndebug, pc, frame, failuresLeft, acqErr, lastFailure, swapIdx,
                  mCurrentImageIndex, owner, mDrawCmdBuffer, allocatedDrawBuffers,
                  mPrePresentCommandBuffer, mPostPresentCommandBuffer, queue,
                  layout, log, lastTransition, lastPresent, renderSignaledBy >>

\* ------------------------------------------------------------------- Next
GpuBeginsRenderPass == \E k \in 1 .. Len(queue) : GpuBeginRenderPass(k)

GpuCompletesDraw == \E k \in 1 .. Len(queue) : GpuCompleteDraw(k)

GpuExecutesBarrier == \E k \in 1 .. Len(queue) : GpuBarrier(k)

PresentationEngineReads == \E k \in 1 .. Len(queue) : PresentImage(k)

Next ==
  \/ AcquireNextImage
  \/ ResetOrAllocate
  \/ BeginDrawCommandBuffer
  \/ EndDrawCommandBuffer
  \/ SubmitDraw
  \/ SubmitPrePresent
  \/ QueuePresent
  \/ SubmitPostPresent
  \/ QueueWaitIdle
  \/ GpuBeginsRenderPass
  \/ GpuCompletesDraw
  \/ GpuExecutesBarrier
  \/ PresentationEngineReads
  \/ SignalPresentComplete

Spec == Init /\ [][Next]_vars

\* the same program when every API call succeeds
SpecNoFailure == InitNoFailure /\ [][Next]_vars

\* --------------------------------------------------------------- claims

IsPrefix(s, t) == Len(s) <= Len(t) /\ s = SubSeq(t, 1, Len(s))

\* the steps of one frame, in the order startRender and finishRender make them
FrameOrder ==
  << "acquire", "resetOrAllocate", "beginDraw", "beginRenderPass",
     "endRenderPass", "endDraw", "submitDraw", "submitPrePresent",
     "queuePresent", "submitPostPresent", "queueWaitIdle" >>

\* the number of steps made when the CPU thread is at a position
StepsAt(p) ==
  CASE p = "sr_reset" -> 1
    [] p = "sr_begin" -> 2
    [] p = "Recording" -> 4
    [] p = "fr_submit" -> 6
    [] p = "fr_pre" -> 7
    [] p = "fr_present" -> 8
    [] p = "fr_post" -> 9
    [] p = "fr_wait" -> 10
    [] OTHER -> 11

\* C1: every frame makes its steps in the order acquire, reset/allocate, begin draw
\* buffer, begin render pass, end render pass, end draw buffer, submit draw,
\* submit pre-present, queuePresent, submit post-present, queue wait idle; at every
\* position exactly the steps before it have been made, none skipped or reordered,
\* and when finishRender has returned (Idle) the frame has made all of them
C1_FrameStepsInOrder ==
  /\ IsPrefix(log, FrameOrder)
  /\ pc \notin { "Idle", "Aborted", "Crashed" } => Len(log) = StepsAt(pc)
  /\ (pc = "Idle" /\ frame >= 1) => log = FrameOrder

\* two complete frames have been made, the second back in Idle
C1_Witness == pc = "Idle" /\ frame = 2 /\ log = FrameOrder

\* C7: whenever finishRender has returned after one or more frames, whatever image
\* indices were acquired, the renderer is Idle with exactly ImageCount draw command
\* buffers, and ImageCount is all that was ever allocated for drawing
C7_DrawBuffersAllocatedOnce ==
  /\ allocatedDrawBuffers \in { 0, ImageCount }
  /\ (frame >= 1 /\ pc \in { "Idle", "Recording" }) =>
       /\ Len(mDrawCmdBuffer) = ImageCount
       /\ allocatedDrawBuffers = ImageCount

\* a later frame on another image has completed and the buffers are still the first ones
C7_Witness ==
  /\ pc = "Idle"
  /\ frame >= 2
  /\ mCurrentImageIndex # 0
  /\ allocatedDrawBuffers = ImageCount

\* positions of the CPU thread at which the draw buffer of the frame has been begun
BegunPositions == { "Recording", "fr_submit", "fr_pre", "fr_present", "fr_post", "fr_wait" }

\* C8: in a frame whose acquire returned index i, no step changes the draw buffer of
\* another index, the draw buffer of i records its render pass on framebuffer i,
\* every operation put on the queue (draw, barriers, present) names image i, and the
\* current image index changes at acquire only
C8_FrameTouchesOnlyItsIndex ==
  [][ /\ (mCurrentImageIndex' # mCurrentImageIndex) =>
            (pc = "Idle" /\ log' = << "acquire" >>)
      /\ (acqErr' = "SUCCESS") =>
            /\ (Len(mDrawCmdBuffer') = Len(mDrawCmdBuffer)) =>
                 \A j \in 1 .. Len(mDrawCmdBuffer) :
                    (j # mCurrentImageIndex' + 1) => mDrawCmdBuffer'[j] = mDrawCmdBuffer[j]
            /\ (pc' \in BegunPositions) =>
                 /\ mDrawCmdBuffer'[mCurrentImageIndex' + 1].target = mCurrentImageIndex'
                 /\ mDrawCmdBuffer'[mCurrentImageIndex' + 1].state =
                      (IF pc' = "Recording" THEN "recording" ELSE "executable")
            /\ (Len(queue') > Len(queue)) =>
                 queue'[Len(queue')].img = mCurrentImageIndex'
    ]_vars

\* a frame on image 1 is waiting for the queue while the draw buffer of image 0,
\* recorded by an earlier frame, still holds that frame's recording
C8_Witness ==
  /\ pc = "fr_wait"
  /\ acqErr = "SUCCESS"
  /\ mCurrentImageIndex = 1
  /\ mDrawCmdBuffer[1] = [ state |-> "executable", target |-> 0 ]
  /\ mDrawCmdBuffer[2] = [ state |-> "executable", target |-> 1 ]

\* C2: the draw submission waits on presentComplete and signals renderComplete, the
\* present request waits on renderComplete, and whenever the presentation engine
\* starts reading a frame's image that frame's draw submission has signaled
\* renderComplete
C2_PresentAfterRenderComplete ==
  /\ \A k \in 1 .. Len(queue) :
        /\ queue[k].kind = "draw" =>
             (queue[k].wait = { "presentComplete" } /\ queue[k].signal = { "renderComplete" })
        /\ queue[k].kind = "present" => queue[k].wait = { "renderComplete" }
  /\ lastPresent.drawSignaled

\* C3: no draw batch has begun its render pass (written the acquired image) while
\* presentComplete is still to be signaled for that frame's acquisition
C3_NoWriteBeforePresentComplete ==
  \A k \in 1 .. Len(queue) :
     (queue[k].kind = "draw" /\ queue[k].started) => queue[k].frame # acqPending

\* C4: whenever the presentation engine starts reading a queued image, the image is
\* in present-source layout (the frame's pre-present barrier has executed and
\* nothing has moved the layout since)
C4_PresentSrcAtPresentation ==
  lastPresent.frame # 0 => lastPresent.found = "PRESENT_SRC_KHR"

\* C5: every render pass finds its image in undefined or color-attachment-optimal
\* layout, every pre-present barrier finds it in color-attachment-optimal, every
\* post-present barrier finds it in present-source, and when finishRender has
\* returned the frame's image is in color-attachment-optimal layout
C5_LayoutsTracked ==
  /\ lastTransition.kind = "draw" =>
       lastTransition.found \in { "UNDEFINED", "COLOR_ATTACHMENT_OPTIMAL" }
  /\ lastTransition.kind = "pre" => lastTransition.found = "COLOR_ATTACHMENT_OPTIMAL"
  /\ lastTransition.kind = "post" => lastTransition.found = "PRESENT_SRC_KHR"
  /\ (pc = "Idle" /\ frame >= 1 /\ acqErr = "SUCCESS") =>
       layout[mCurrentImageIndex] = "COLOR_ATTACHMENT_OPTIMAL"

\* C6: when finishRender has returned, nothing submitted is still pending
C6_IdleWhenFinishRenderReturns ==
  (pc = "Idle" /\ frame >= 1) => queue = << >>

\* C9: a failed submission, queuePresent or queue wait ends the frame as a failure:
\* the CPU thread does not go on with the frame
C9_FailureIsFatal ==
  lastFailure # "none" => pc = "Aborted"

\* C10: an out-of-date swapchain at acquire is surfaced differently from a device
\* error, and after either failure no draw command buffer is begun
C10_OutOfDateIsDistinct ==
  /\ acqErr = "OUT_OF_DATE" =>
       StartRenderOutcome("OUT_OF_DATE") # StartRenderOutcome("DEVICE_LOST")
  /\ acqErr # "SUCCESS" => pc \notin BegunPositions

\* ================================================== of::vk::Shader
\* Loading, dirty detection, reflection and set-layout keys of one Shader.
\* A binary (spirCode) is a sequence of instructions: the module header, then
\* one declaration per uniform block in the order the compiler emitted them.

\* ------------------------------------------------------------ inputs
Declarations ==
  UNION { { UniformBlock(n, st, b, z) :
              st \in 0 .. MaxSet, b \in BindingNumbers, z \in StorageSizes(n) } :
          n \in UniformNames }

DistinctNames(q) == \A i, j \in DOMAIN q : i # j => q[i].name # q[j].name

\* every binary with at most MaxBlocks uniform blocks of different names
Binaries ==
  UNION { { << SpvHeader >> \o q : q \in { r \in [ 1 .. n -> Declarations ] : DistinctNames(r) } } :
            n \in 0 .. MaxBlocks }

SpvFile(code) == [ exists |-> TRUE, ext |-> "spv", compiles |-> TRUE, code |-> code ]

GlslFile(code) == [ exists |-> TRUE, ext |-> "glsl", compiles |-> TRUE, code |-> code ]

\* a GLSL source the compiler rejects
BadGlslFile == [ exists |-> TRUE, ext |-> "glsl", compiles |-> FALSE, code |-> EmptySpirCode ]

\* the files a Shader may be constructed from
ConstructFiles == { MissingFile, BadGlslFile } \cup { SpvFile(b) : b \in Binaries }

BinaryA == << SpvHeader, UniformBlock("Foo", 0, 0, 16) >>

BinaryB == << SpvHeader, UniformBlock("Foo", 0, 0, 16), UniformBlock("Bar", 0, 1, 16) >>

\* the versions of a shader file that follow each other while it is being edited
ReloadFiles == { MissingFile, BadGlslFile, GlslFile(BinaryA), SpvFile(BinaryB) }

\* Settings::sources as the renderer hands them over: vertex stage, then fragment stage
SettingsSources == << VK_SHADER_STAGE_VERTEX_BIT, VK_SHADER_STAGE_FRAGMENT_BIT >>

\* what the bytes the program never wrote may hold (two values stand for all)
PaddingValues == { 0, 1 }

\* what such bytes hold in this run
UninitialisedBytes == IF zeroedMemory THEN { 0 } ELSE PaddingValues

\* ------------------------------------------------------------ hashing
\* SpookyHash::Hash64( data, length, seed ): a deterministic function of the
\* bytes handed to it. Modelled as a polynomial hash, wide enough that the
\* binaries of the bounded domain do not collide.
HashMultiplier == 61

HashModulus == 16777216

RECURSIVE Hash64(_, _)
Hash64(message, seed) ==
  IF message = << >> THEN seed
  ELSE Hash64(Tail(message), (seed * HashMultiplier + Head(message) + 1) % HashModulus)

NameIndex(n) == CHOOSE k \in DOMAIN NameOrder : NameOrder[k] = n

\* the 32 bit word that stands for one instruction of a binary
WordOf(ins) ==
  IF ins.op = "Header" THEN 1
  ELSE 2 + (((NameIndex(ins.name) - 1) * (MaxSet + 1) + ins.set) * 2 + ins.binding) * 3
         + (ins.size \div 16)

\* spirCode_.data(), spirCode_.size() * sizeof( uint32_t )
SpirWords(spirCode) == [ k \in DOMAIN spirCode |-> WordOf(spirCode[k]) ]

RECURSIVE BitOr(_, _)
BitOr(a, b) ==
  IF a = 0 THEN b
  ELSE IF b = 0 THEN a
  ELSE (IF a % 2 = 1 \/ b % 2 = 1 THEN 1 ELSE 0) + 2 * BitOr(a \div 2, b \div 2)

\* ------------------------------------------------------------ loading
LogEntry(level, kind, stage, name, index) ==
  [ level |-> level, kind |-> kind, stage |-> stage, name |-> name, index |-> index ]

\* getSpirV: a .spv file is read as it is; anything else is compiled, and a failed
\* compilation leaves spirCode as setup() declared it (empty)
getSpirV(file) ==
  IF file.ext = "spv" THEN file.code
  ELSE IF file.compiles THEN file.code ELSE EmptySpirCode

CompileFails(file) == file.ext # "spv" /\ ~file.compiles

\* isSpirCodeDirty: the result, and the Shader with mSpvHash as the call leaves it
isSpirCodeDirty(sh, shaderStage, spirCode) ==
  LET spirvHash == Hash64(SpirWords(spirCode), 0)
  IN  IF sh.mSpvHash[shaderStage] = NoHash
      THEN [ dirty |-> TRUE, sh |-> [ sh EXCEPT !.mSpvHash[shaderStage] = spirvHash ] ]
      ELSE [ dirty |-> sh.mSpvHash[shaderStage] # spirvHash, sh |-> sh ]

\* createVkShaderModule, with ok the result of vkCreateShaderModule
createVkShaderModule(sh, shaderType, spirCode, ok) ==
  IF ok
  THEN LET module == sh.modulesCreated + 1
       IN  [ sh EXCEPT !.modulesCreated = module,
                       !.mModules[shaderType] = module,
                       !.mStages = Append(@, [ stage |-> shaderType, module |-> module ]),
                       !.mSpvCrossCompilers[shaderType] = [ present |-> TRUE, code |-> spirCode ] ]
  ELSE sh

\* one pass of the loop of setup() over mSettings.sources; w holds the Shader (sh),
\* the bookkeeping of this run (su) and the layouts stored in the context (ctx)
LoadStage(w, shaderType, file, ok) ==
  IF ~file.exists
  THEN [ w EXCEPT !.su.errors = Append(@, LogEntry("error", "file_not_found", shaderType, "", 0)) ]
  ELSE LET spirCode == getSpirV(file)
           errs == IF CompileFails(file)
                   THEN Append(w.su.errors, LogEntry("error", "compile", shaderType, "", 0))
                   ELSE w.su.errors
           d == isSpirCodeDirty(w.sh, shaderType, spirCode)
           old == w.su.load[shaderType]
           load == [ seen |-> TRUE, loaded |-> TRUE, code |-> spirCode, dirty |-> d.dirty,
                     hadPrev |-> old.loaded, prev |-> old.code ]
       IN  IF d.dirty
           THEN [ w EXCEPT
                    !.sh = createVkShaderModule(d.sh, shaderType, spirCode, ok),
                    !.su.load[shaderType] = load,
                    !.su.attempts = Append(@, [ stage |-> shaderType, words |-> Len(spirCode), ok |-> ok ]),
                    !.su.errors = IF ok THEN errs
                                  ELSE Append(errs, LogEntry("notice", "module_creation", shaderType, "", 0)) ]
           ELSE [ w EXCEPT !.sh = d.sh, !.su.load[shaderType] = load, !.su.errors = errs ]

\* mutant: the loop ends at the first file that does not exist
RECURSIVE LoadSources_StopsAtMissing(_, _, _)
LoadSources_StopsAtMissing(w, k, results) ==
  IF k > Len(sources) THEN w
  ELSE IF ~files[sources[k]].exists
       THEN LoadStage(w, sources[k], files[sources[k]], results[sources[k]])
       ELSE LoadSources_StopsAtMissing(
              LoadStage(w, sources[k], files[sources[k]], results[sources[k]]), k + 1, results)

RECURSIVE LoadSources(_, _, _)
LoadSources(w, k, results) ==
  IF k > Len(sources) THEN w
  ELSE LoadSources(LoadStage(w, sources[k], files[sources[k]], results[sources[k]]), k + 1, results)

\* bool shaderDirty after the loop
ShaderDirty(w) == \E st \in Stages : w.su.load[st].seen /\ w.su.load[st].dirty

\* --------------------------------------------------------- reflection
\* compiler.get_shader_resources().uniform_buffers
UniformBuffers(code) == SelectSeq(code, LAMBDA ins : ins.op = "UniformBlock")

\* mutant: the stage flags of the existing entry are merged without comparing
processResource_MergesAlways(w, ubo, shaderStage) ==
  LET existingBinding == w.sh.mUniforms[ubo.name]
      flags == IF existingBinding.present
               THEN BitOr(shaderStage, existingBinding.binding.stageFlags)
               ELSE shaderStage
  IN  [ w EXCEPT !.sh.mUniforms[ubo.name] =
          [ present |-> TRUE, name |-> ubo.name, set |-> ubo.set, size |-> ubo.size,
            binding |-> [ binding |-> ubo.binding,
                          descriptorType |-> VK_DESCRIPTOR_TYPE_UNIFORM_BUFFER_DYNAMIC,
                          descriptorCount |-> 1, stageFlags |-> flags ] ] ]

\* mutant: a block that is already in the table keeps the stage flags it has
processResource_KeepsFirst(w, ubo, shaderStage) ==
  LET existingBinding == w.sh.mUniforms[ubo.name]
  IN  IF existingBinding.present THEN w
      ELSE processResource_MergesAlways(w, ubo, shaderStage)

\* processResource: one uniform block of one stage enters the table mUniforms
processResource(w, ubo, shaderStage) ==
  LET descriptor_set == ubo.set
      bindingNumber == ubo.binding
      storageSize == ubo.size
      existingBinding == w.sh.mUniforms[ubo.name]
      found == existingBinding.present
      incompatible == found /\ ( existingBinding.set # descriptor_set
                                 \/ existingBinding.binding.binding # bindingNumber )
      stageFlags == IF found /\ ~incompatible
                    THEN BitOr(shaderStage, existingBinding.binding.stageFlags)
                    ELSE shaderStage
      newBinding == [ binding |-> bindingNumber,
                      descriptorType |-> VK_DESCRIPTOR_TYPE_UNIFORM_BUFFER_DYNAMIC,
                      descriptorCount |-> 1,
                      stageFlags |-> stageFlags ]
  IN  [ w EXCEPT
          !.su.errors = IF incompatible
                        THEN Append(@, LogEntry("error", "incompatible_bindings", shaderStage, ubo.name, 0))
                        ELSE @,
          !.sh.mUniforms[ubo.name] =
             [ present |-> TRUE, name |-> ubo.name, set |-> descriptor_set,
               size |-> storageSize, binding |-> newBinding ] ]

RECURSIVE ProcessResources(_, _, _)
ProcessResources(w, resources, shaderStage) ==
  IF resources = << >> THEN w
  ELSE ProcessResources(processResource(w, Head(resources), shaderStage), Tail(resources), shaderStage)

RECURSIVE ReflectFrom(_, _)
ReflectFrom(w, k) ==
  IF k > Len(StageOrder) THEN w
  ELSE LET c == w.sh.mSpvCrossCompilers[StageOrder[k]]
       IN  IF c.present
           THEN ReflectFrom(ProcessResources(w, UniformBuffers(c.code), StageOrder[k]), k + 1)
           ELSE ReflectFrom(w, k + 1)

\* reflect: every stage that has a reflection compiler, in the order of the map
reflect(w) == [ ReflectFrom(w, 1) EXCEPT !.su.reflected = TRUE ]

\* -------------------------------------------------------- set layouts
\* the entries of mUniforms with set index n, in the order the map yields them
RECURSIVE BindingsOfSet(_, _, _)
BindingsOfSet(uniforms, n, k) ==
  IF k > Len(NameOrder) THEN << >>
  ELSE LET u == uniforms[NameOrder[k]]
       IN  (IF u.present /\ u.set = n THEN << u >> ELSE << >>) \o BindingsOfSet(uniforms, n, k + 1)

\* where std::sort puts x among already sorted elements (a range this short is sorted
\* by insertion: elements that compare equal keep the order the map gave them)
InsertByBinding(sorted, x) ==
  LET before == { k \in DOMAIN sorted : sorted[k].binding.binding <= x.binding.binding }
      n == Cardinality(before)
  IN  SubSeq(sorted, 1, n) \o << x >> \o SubSeq(sorted, n + 1, Len(sorted))

RECURSIVE SortByBinding(_)
SortByBinding(v) ==
  IF v = << >> THEN << >>
  ELSE InsertByBinding(SortByBinding(SubSeq(v, 1, Len(v) - 1)), v[Len(v)])

\* struct BindingInfoPOD of one binding as it lies in memory: set, 4 bytes the program
\* never writes, the VkDescriptorSetLayoutBinding (binding, descriptorType,
\* descriptorCount, stageFlags, pImmutableSamplers), size, 4 bytes never written
BindingInfoPOD(b, garbage) ==
  << b.set, garbage, b.binding.binding, b.binding.descriptorType,
     b.binding.descriptorCount, b.binding.stageFlags, 0, b.size, garbage >>

RECURSIVE PodBytes(_, _)
PodBytes(bindings, padding) ==
  IF bindings = << >> THEN << >>
  ELSE BindingInfoPOD(Head(bindings), padding) \o PodBytes(Tail(bindings), padding)

\* SetLayout::calculateHash: the key of a layout
calculateHash(bindings, padding) == Hash64(PodBytes(bindings, padding), 0)

\* the set indices found in mUniforms
ObservedSets(uniforms) == { uniforms[n].set : n \in { m \in UniformNames : uniforms[m].present } }

\* mutant: every registration creates a layout object of its own
Context_storeDescriptorSetLayout_AlwaysCreates(ctx, key) ==
  ctx \cup { [ key |-> key, layout |-> Cardinality(ctx) + 1 ] }

\* Context::storeDescriptorSetLayout: the first registration of a key creates a
\* descriptor-set-layout object and keeps it; a later one finds the object
Context_storeDescriptorSetLayout(ctx, key) ==
  IF \E e \in ctx : e.key = key THEN ctx
  ELSE ctx \cup { [ key |-> key, layout |-> Cardinality(ctx) + 1 ] }

\* the loop of buildSetLayouts over bindingInfoMap; i counts the sets visited so far
RECURSIVE BuildFrom(_, _, _, _)
BuildFrom(w, setNumber, i, padding) ==
  IF setNumber > MaxSet THEN w
  ELSE IF setNumber \notin ObservedSets(w.sh.mUniforms)
       THEN BuildFrom(w, setNumber + 1, i, padding)
       ELSE LET bindings == SortByBinding(BindingsOfSet(w.sh.mUniforms, setNumber, 1))
                key == calculateHash(bindings, padding)
                w1 == [ w EXCEPT
                          !.su.errors = IF setNumber # i
                                        THEN Append(@, LogEntry("error", "sparse_set", 0, "", i))
                                        ELSE @,
                          !.sh.mDescriptorSetLayoutKeys = Append(@, key),
                          !.ctx = Context_storeDescriptorSetLayout(@, key) ]
            IN  BuildFrom(w1, setNumber + 1, i + 1, padding)

buildSetLayouts(w, padding) == [ BuildFrom(w, 0, 0, padding) EXCEPT !.su.built = TRUE ]

\* --------------------------------------------------------------- setup
\* the loop of setup() over the sources, with the given results of vkCreateShaderModule
LoadResult(results) ==
  LoadSources(
    [ sh |-> shader,
      su |-> [ lastSetup EXCEPT
                 !.load = [ st \in Stages |-> [ @[st] EXCEPT !.seen = FALSE ] ],
                 !.attempts = << >>, !.errors = << >>,
                 !.reflected = FALSE, !.built = FALSE, !.count = @ + 1 ],
      ctx |-> storedLayouts ],
    1, results)

\* mutant: reflect and buildSetLayouts run at the end of every setup()
FinishSetup_Always(w, padding) == buildSetLayouts(reflect(w), padding)

\* the end of setup(): reflect and buildSetLayouts run when a stage was dirty
FinishSetup(w, padding) ==
  IF ShaderDirty(w) THEN buildSetLayouts(reflect(w), padding) ELSE w

\* calls of vkCreateShaderModule that were handed a binary and returned an error
FailedCreations(su) ==
  Cardinality({ k \in DOMAIN su.attempts : ~su.attempts[k].ok /\ su.attempts[k].words > 0 })

\* one run of Shader::setup(). vkCreateShaderModule with codeSize 0 is outside the
\* API's contract: it may return success or an error whatever the failure budget.
\* padding is what the bytes hold that calculateHash reads without the program
\* having written them.
RunShaderSetup ==
  /\ loadsLeft > 0
  /\ \E results \in [ Stages -> BOOLEAN ] :
       \E w1 \in { LoadResult(results) } :
         /\ FailedCreations(w1.su) <= failuresLeft
         /\ \A st \in Stages :
              (\A k \in DOMAIN w1.su.attempts : w1.su.attempts[k].stage # st) => results[st]
         /\ failuresLeft' = failuresLeft - FailedCreations(w1.su)
         /\ \E padding \in UninitialisedBytes :
              \E w \in { FinishSetup(w1, padding) } :
                /\ shader' = w.sh
                /\ lastSetup' = w.su
                /\ storedLayouts' = w.ctx
  /\ loadsLeft' = loadsLeft - 1
  /\ UNCHANGED << ndebug, frameVars, zeroedMemory, sources, files, drawVars, vertexVars >>

\* Shader::setup() called on its own (by the constructor, or to reload the files)
Shader_setup == RunShaderSetup /\ UNCHANGED setupVars

\* a shader file is replaced on disk between two runs of setup()
EditShaderFile ==
  /\ loadsLeft > 0
  /\ lastSetup.count > 0
  /\ \E st \in Stages, f \in ReloadFiles :
       /\ f # files[st]
       /\ files' = [ files EXCEPT ![st] = f ]
  /\ UNCHANGED << ndebug, frameVars, failuresLeft, zeroedMemory, sources,
                  loadsLeft, shader, storedLayouts, lastSetup, setupVars, drawVars, vertexVars >>

\* the renderer has not started a frame; the build flag assert() depends on plays no
\* part in Shader
InitShaderOwner == InitRenderer /\ ndebug = FALSE /\ SetupNotRun /\ NothingDrawn

\* Shader::Shader( settings ): setup() runs once on a fresh object, for every pair of
\* files, with vkCreateShaderModule failing up to MaxFailures times and with any content
\* of the memory the program has not written
InitShaderConstruct ==
  /\ InitShaderOwner
  /\ NoVertexInputs
  /\ failuresLeft = MaxFailures
  /\ zeroedMemory = FALSE
  /\ sources = SettingsSources
  /\ files \in [ Stages -> ConstructFiles ]
  /\ loadsLeft = 1
  /\ shader = FreshShader
  /\ storedLayouts = {}
  /\ lastSetup = NoSetup

\* a Shader whose files change while setup() is run again and again, in a run where
\* vkCreateShaderModule accepts every binary and fresh memory reads as zero
InitShaderReload ==
  /\ InitShaderOwner
  /\ NoVertexInputs
  /\ failuresLeft = 0
  /\ zeroedMemory = TRUE
  /\ sources = SettingsSources
  /\ files \in [ Stages -> ReloadFiles ]
  /\ loadsLeft = MaxLoads
  /\ shader = FreshShader
  /\ storedLayouts = {}
  /\ lastSetup = NoSetup

NextShaderConstruct == Shader_setup

NextShaderReload ==
  \/ Shader_setup
  \/ EditShaderFile

SpecShaderConstruct == InitShaderConstruct /\ [][NextShaderConstruct]_vars

SpecShaderReload == InitShaderReload /\ [][NextShaderReload]_vars

\* ------------------------------------------------- claims on Shader
\* C11: at every load of a stage, isSpirCodeDirty reports dirty exactly when it is the
\* first load of that stage or the binary differs from the binary of the most recent
\* previous load of that stage (A, B, B: not dirty at the third load; A, B, A: dirty).
C11_DirtyIffChangedSinceLastLoad ==
  \A st \in Stages :
    lastSetup.load[st].seen =>
      ( lastSetup.load[st].dirty <=>
          ( ~lastSetup.load[st].hadPrev \/ lastSetup.load[st].prev # lastSetup.load[st].code ) )

\* the entries of mStages that belong to one stage
StageEntries(sh, st) == SelectSeq(sh.mStages, LAMBDA e : e.stage = st)

\* a step that is one run of setup()
IsSetupStep == lastSetup'.count = lastSetup.count + 1

\* a stage for which this run of setup() called vkCreateShaderModule
Attempted(su, st) == \E k \in DOMAIN su.attempts : su.attempts[k].stage = st

\* C12: in every run of setup(), a stage whose binary hashes to the hash stored for it
\* is not dirty, gets no module and no stage entry; and when no stage is dirty, reflect
\* and buildSetLayouts do not run and the uniform table, the layout keys, the modules
\* and the stored hashes stay as they were.
C12_UnchangedHashSkipsRebuild ==
  [][ IsSetupStep =>
        /\ \A st \in Stages :
             ( lastSetup'.load[st].seen
               /\ Hash64(SpirWords(lastSetup'.load[st].code), 0) = shader.mSpvHash[st] )
             => /\ ~lastSetup'.load[st].dirty
                /\ ~Attempted(lastSetup', st)
                /\ shader'.mModules[st] = shader.mModules[st]
                /\ StageEntries(shader', st) = StageEntries(shader, st)
        /\ ( \A st \in Stages : lastSetup'.load[st].seen => ~lastSetup'.load[st].dirty )
             => /\ ~lastSetup'.reflected
                /\ ~lastSetup'.built
                /\ shader'.mUniforms = shader.mUniforms
                /\ shader'.mDescriptorSetLayoutKeys = shader.mDescriptorSetLayoutKeys
                /\ shader'.mModules = shader.mModules
                /\ shader'.mSpvHash = shader.mSpvHash
                /\ storedLayouts' = storedLayouts
    ]_vars

\* a second run of setup() found both stages with the stored hash and rebuilt nothing
C12_Witness ==
  /\ lastSetup.count = 2
  /\ \A st \in Stages : lastSetup.load[st].seen /\ ~lastSetup.load[st].dirty
  /\ ~lastSetup.reflected
  /\ shader.mUniforms["Foo"].present

\* an error of the given kind was reported for the stage by this run of setup()
Reported(su, kind, st) ==
  \E k \in DOMAIN su.errors :
    su.errors[k].level = "error" /\ su.errors[k].kind = kind /\ su.errors[k].stage = st

\* C13: when compiling a stage's GLSL source fails, an error is reported, the stage is
\* skipped (vkCreateShaderModule is not called with the empty binary; module, stage
\* entries and reflection compiler of the stage stay as they were) and the other stage
\* is still processed.
C13_FailedCompileSkipsStage ==
  [][ IsSetupStep =>
        \A st \in Stages :
          ( files[st].exists /\ CompileFails(files[st]) )
          => /\ Reported(lastSetup', "compile", st)
             /\ ~Attempted(lastSetup', st)
             /\ shader'.mModules[st] = shader.mModules[st]
             /\ StageEntries(shader', st) = StageEntries(shader, st)
             /\ shader'.mSpvCrossCompilers[st] = shader.mSpvCrossCompilers[st]
             /\ \A other \in Stages \ { st } : files[other].exists => lastSetup'.load[other].seen
    ]_vars

\* C14: when the file of a stage does not exist, an error is reported, the stage's
\* stored hash, module, stage entries and reflection compiler stay as they were, and
\* every other stage whose file exists is still loaded.
C14_MissingFileSkipsOnlyThatStage ==
  [][ IsSetupStep =>
        \A st \in Stages :
          ~files[st].exists
          => /\ Reported(lastSetup', "file_not_found", st)
             /\ ~lastSetup'.load[st].seen
             /\ shader'.mSpvHash[st] = shader.mSpvHash[st]
             /\ shader'.mModules[st] = shader.mModules[st]
             /\ StageEntries(shader', st) = StageEntries(shader, st)
             /\ shader'.mSpvCrossCompilers[st] = shader.mSpvCrossCompilers[st]
             /\ \A other \in Stages \ { st } : files[other].exists => lastSetup'.load[other].seen
    ]_vars

\* the vertex file was missing, and the fragment stage listed after it was loaded and
\* got its module
C14_Witness ==
  /\ Reported(lastSetup, "file_not_found", VK_SHADER_STAGE_VERTEX_BIT)
  /\ lastSetup.load[VK_SHADER_STAGE_FRAGMENT_BIT].seen
  /\ lastSetup.load[VK_SHADER_STAGE_FRAGMENT_BIT].dirty
  /\ shader.mModules[VK_SHADER_STAGE_FRAGMENT_BIT] # NoModule
  /\ shader.mModules[VK_SHADER_STAGE_VERTEX_BIT] = NoModule

\* the uniform blocks the reflection compiler of a stage holds
DeclaredBlocks(sh, st) ==
  IF sh.mSpvCrossCompilers[st].present
  THEN { sh.mSpvCrossCompilers[st].code[k] :
           k \in { j \in DOMAIN sh.mSpvCrossCompilers[st].code :
                     sh.mSpvCrossCompilers[st].code[j].op = "UniformBlock" } }
  ELSE {}

\* the stages whose reflection compiler declares exactly this block
StagesDeclaring(sh, block) == { st \in Stages : block \in DeclaredBlocks(sh, st) }

\* C15: after reflection, a uniform block that both stages declare with the same name,
\* set, binding and size has one entry in the uniform table, with that set, binding and
\* size and with the stage mask VERTEX | FRAGMENT.
C15_SameBlockMergesStageMasks ==
  lastSetup.reflected =>
    \A block \in Declarations :
      StagesDeclaring(shader, block) = Stages
      => shader.mUniforms[block.name] =
           [ present |-> TRUE, name |-> block.name, set |-> block.set, size |-> block.size,
             binding |-> [ binding |-> block.binding,
                           descriptorType |-> VK_DESCRIPTOR_TYPE_UNIFORM_BUFFER_DYNAMIC,
                           descriptorCount |-> 1,
                           stageFlags |-> BitOr(VK_SHADER_STAGE_VERTEX_BIT,
                                                VK_SHADER_STAGE_FRAGMENT_BIT) ] ]

\* both stages declare the same block Foo, in different places of their binaries
C15_Witness ==
  /\ lastSetup.reflected
  /\ \E block \in Declarations :
       /\ block.name = "Foo"
       /\ StagesDeclaring(shader, block) = Stages
       /\ shader.mUniforms["Foo"].binding.stageFlags = 17
  /\ shader.mSpvCrossCompilers[VK_SHADER_STAGE_VERTEX_BIT].code[2].name = "Foo"
  /\ Len(shader.mSpvCrossCompilers[VK_SHADER_STAGE_FRAGMENT_BIT].code) = 3
  /\ shader.mSpvCrossCompilers[VK_SHADER_STAGE_FRAGMENT_BIT].code[3].name = "Foo"

\* the two stages declare a block of this name with a different set or binding
DeclaredIncompatibly(sh, n) ==
  \E bv \in DeclaredBlocks(sh, VK_SHADER_STAGE_VERTEX_BIT),
     bf \in DeclaredBlocks(sh, VK_SHADER_STAGE_FRAGMENT_BIT) :
    /\ bv.name = n
    /\ bf.name = n
    /\ ( bv.set # bf.set \/ bv.binding # bf.binding )

ReportedForBlock(su, kind, n) ==
  \E k \in DOMAIN su.errors :
    su.errors[k].level = "error" /\ su.errors[k].kind = kind /\ su.errors[k].name = n

\* C16: after reflection, for every block name the two stages declare with a different
\* binding number or set index, an error naming the block has been reported and the
\* entry's stage mask is not the merged one.
C16_MismatchIsReportedNotMerged ==
  lastSetup.reflected =>
    \A n \in UniformNames :
      DeclaredIncompatibly(shader, n)
      => /\ ReportedForBlock(lastSetup, "incompatible_bindings", n)
         /\ shader.mUniforms[n].binding.stageFlags = VK_SHADER_STAGE_FRAGMENT_BIT

\* Foo has binding 0 in the vertex stage and binding 1 in the fragment stage
C16_Witness ==
  /\ lastSetup.reflected
  /\ UniformBlock("Foo", 0, 0, 16) \in DeclaredBlocks(shader, VK_SHADER_STAGE_VERTEX_BIT)
  /\ UniformBlock("Foo", 0, 1, 16) \in DeclaredBlocks(shader, VK_SHADER_STAGE_FRAGMENT_BIT)
  /\ ReportedForBlock(lastSetup, "incompatible_bindings", "Foo")
  /\ shader.mUniforms["Foo"].binding.binding = 1

\* the two stages declare a block of this name with the same set and binding but a
\* different struct size
DeclaredWithOtherSize(sh, n) ==
  \E bv \in DeclaredBlocks(sh, VK_SHADER_STAGE_VERTEX_BIT),
     bf \in DeclaredBlocks(sh, VK_SHADER_STAGE_FRAGMENT_BIT) :
    /\ bv.name = n
    /\ bf.name = n
    /\ bv.set = bf.set
    /\ bv.binding = bf.binding
    /\ bv.size # bf.size

\* C17: after reflection, for every block name the two stages declare with the same set
\* and binding but a different declared struct size, an error naming the block has been
\* reported.
C17_DifferentSizeIsReported ==
  lastSetup.reflected =>
    \A n \in UniformNames :
      DeclaredWithOtherSize(shader, n)
      => \E k \in DOMAIN lastSetup.errors :
           lastSetup.errors[k].level = "error" /\ lastSetup.errors[k].name = n

\* the smallest set index no uniform block uses
FirstAbsentSet(uniforms) ==
  CHOOSE n \in 0 .. (MaxSet + 1) :
    /\ n \notin ObservedSets(uniforms)
    /\ \A m \in 0 .. (n - 1) : m \in ObservedSets(uniforms)

\* the observed set indices are 0 .. k for some k (or there is none)
SetsContiguous(uniforms) ==
  \A n \in ObservedSets(uniforms) : \A m \in 0 .. n : m \in ObservedSets(uniforms)

\* the indices the sparse-set errors of this run name as missing
SparseSetReports(su) ==
  { su.errors[k].index : k \in { j \in DOMAIN su.errors : su.errors[j].kind = "sparse_set" } }

\* C18: after buildSetLayouts, a sparse-set error has been reported whenever the observed
\* set indices are not contiguous from 0, and every index reported as missing is the
\* first absent index (observed {0, 2}: set 1).
C18_SparseSetReportedAtFirstGap ==
  lastSetup.built =>
    /\ ~SetsContiguous(shader.mUniforms) => SparseSetReports(lastSetup) # {}
    /\ \A n \in SparseSetReports(lastSetup) : n = FirstAbsentSet(shader.mUniforms)

\* C19: a sparse set index is fatal: when the observed set indices have a gap, the
\* construction stops at the gap, so the Shader holds keys only for the sets below the
\* first absent index and the context has been handed no other layout.
C19_SparseSetAbortsConstruction ==
  ( lastSetup.count = 1 /\ lastSetup.built /\ ~SetsContiguous(shader.mUniforms) )
  => /\ Len(shader.mDescriptorSetLayoutKeys) = FirstAbsentSet(shader.mUniforms)
     /\ Cardinality(storedLayouts) <= FirstAbsentSet(shader.mUniforms)

\* the binaries that declare the same uniform blocks in another order
Reorderings(code) ==
  IF code = << >> THEN { code }
  ELSE { c \in [ DOMAIN code -> { code[k] : k \in DOMAIN code } ] :
           /\ c[1] = code[1]
           /\ \A k \in DOMAIN code : \E j \in DOMAIN code : c[j] = code[k] }

\* the layout keys a fresh Shader computes when its reflection compilers hold these
\* binaries
KeysFor(compilers, padding) ==
  buildSetLayouts(
    reflect([ sh |-> [ FreshShader EXCEPT !.mSpvCrossCompilers = compilers ],
              su |-> NoSetup, ctx |-> {} ]),
    padding).sh.mDescriptorSetLayoutKeys

\* C20: the keys of a constructed Shader do not depend on the order in which the
\* uniform blocks were discovered: computing the set layouts again from the same blocks,
\* declared in any order inside each stage's binary, gives the same keys.
C20_KeyIndependentOfDiscoveryOrder ==
  ( lastSetup.count = 1 /\ lastSetup.built )
  => \A cv \in Reorderings(shader.mSpvCrossCompilers[VK_SHADER_STAGE_VERTEX_BIT].code),
        cf \in Reorderings(shader.mSpvCrossCompilers[VK_SHADER_STAGE_FRAGMENT_BIT].code),
        padding \in PaddingValues :
       KeysFor([ st \in Stages |->
                   [ shader.mSpvCrossCompilers[st] EXCEPT
                       !.code = IF st = VK_SHADER_STAGE_VERTEX_BIT THEN cv ELSE cf ] ],
               padding)
         = shader.mDescriptorSetLayoutKeys

\* the SetLayouts buildSetLayouts makes of the table, in the order it visits the sets
RECURSIVE SetLayoutsFrom(_, _)
SetLayoutsFrom(uniforms, setNumber) ==
  IF setNumber > MaxSet THEN << >>
  ELSE (IF setNumber \in ObservedSets(uniforms)
        THEN << SortByBinding(BindingsOfSet(uniforms, setNumber, 1)) >>
        ELSE << >>) \o SetLayoutsFrom(uniforms, setNumber + 1)

\* the fields of a layout's bindings the key is specified over
LayoutFields(bindings) ==
  [ k \in DOMAIN bindings |->
      << bindings[k].set, bindings[k].binding.binding, bindings[k].binding.descriptorType,
         bindings[k].binding.stageFlags, bindings[k].size >> ]

\* the layouts that differ from this one in their block names at most
Renamed(bindings) ==
  { [ k \in DOMAIN bindings |-> [ bindings[k] EXCEPT !.name = names[k] ] ] :
      names \in [ DOMAIN bindings -> UniformNames ] }

\* C21: the key of every SetLayout of a constructed Shader is the key of every layout
\* with the same sequence of (set, binding, descriptorType, stageFlags, size), whatever
\* the block names of that layout and whatever the bytes of the hashed record hold that
\* are none of these fields.
C21_KeyIsFunctionOfBindingFields ==
  ( lastSetup.count = 1 /\ lastSetup.built )
  => LET layouts == SetLayoutsFrom(shader.mUniforms, 0)
     IN  /\ Len(shader.mDescriptorSetLayoutKeys) = Len(layouts)
         /\ \A k \in DOMAIN layouts :
              \A other \in Renamed(layouts[k]), otherBytes \in PaddingValues :
                LayoutFields(other) = LayoutFields(layouts[k])
                => calculateHash(other, otherBytes) = shader.mDescriptorSetLayoutKeys[k]

\* the layout objects the registry holds for a key
LayoutsOfKey(ctx, key) == { e.layout : e \in { x \in ctx : x.key = key } }

\* C22: after any sequence of registrations the registry holds at most one layout
\* object per key (a SetLayout stored with a key that is already registered gets the
\* object that exists), and every key a Shader recorded has its object.
C22_OneLayoutObjectPerKey ==
  /\ \A e \in storedLayouts : Cardinality(LayoutsOfKey(storedLayouts, e.key)) = 1
  /\ \A k \in DOMAIN shader.mDescriptorSetLayoutKeys :
       Cardinality(LayoutsOfKey(storedLayouts, shader.mDescriptorSetLayoutKeys[k])) = 1

\* a run of setup() has stored a layout whose key was already registered
C22_Witness ==
  /\ lastSetup.count >= 2
  /\ lastSetup.built
  /\ Len(shader.mDescriptorSetLayoutKeys) > Cardinality(storedLayouts)
  /\ Cardinality(storedLayouts) >= 2

\* ------------------------------------------------- ofVkRenderer::setup
\* setup() is about to make the step
AtStep(step) ==
  /\ process = "running"
  /\ setupPc < Len(SetupOrder)
  /\ SetupOrder[setupPc + 1] = step

\* setup() has returned and the renderer is called again
AfterSetup ==
  /\ process = "running"
  /\ setupPc = Len(SetupOrder)
  /\ lateCallsLeft > 0

\* the step is made as part of setup(), or the function is called after setup()
Enter(step) ==
  \/ /\ AtStep(step)
     /\ setupPc' = setupPc + 1
     /\ setupLog' = Append(setupLog, step)
     /\ lateCallsLeft' = lateCallsLeft
  \/ /\ AfterSetup
     /\ step \in { "createSetupCommandBuffer", "flushSetupCommandBuffer" }
     /\ lateCallsLeft' = lateCallsLeft - 1
     /\ UNCHANGED << setupPc, setupLog >>

\* the API calls of one step returned these results: as many errors as there are FALSE
Errors(results) == Cardinality({ k \in DOMAIN results : ~results[k] })

\* ofExit( status ) ends the process
ofExit(status) == "exited"

\* mutant: the first entry's format is taken whatever it is
ChosenFormat_FirstEntry(surfaceFormats) ==
  [ chosen |-> TRUE, format |-> surfaceFormats[1].format,
    colorSpace |-> surfaceFormats[1].colorSpace ]

\* the choice querySurfaceCapabilities makes from the list it holds
ChosenFormat(surfaceFormats) ==
  [ chosen |-> TRUE,
    format |-> IF Len(surfaceFormats) = 1 /\ surfaceFormats[1].format = VK_FORMAT_UNDEFINED
               THEN VK_FORMAT_B8G8R8A8_UNORM
               ELSE surfaceFormats[1].format,
    colorSpace |-> surfaceFormats[1].colorSpace ]

\* querySurfaceCapabilities: the count query, then the query that fills the list
querySurfaceCapabilities ==
  /\ Enter("querySurfaceCapabilities")
  /\ LET formatCount == Len(surface.formats)
     IN  IF ~surface.countQueryOk \/ formatCount = 0
         THEN /\ diagnostics' = Append(diagnostics, "Vulkan error: No valid format was found.")
              /\ process' = ofExit(1)
              /\ UNCHANGED << mWindowColorFormat, failuresLeft >>
         ELSE \E ok \in CallResults :
                LET surfaceFormats == IF ok THEN surface.formats
                                      ELSE [ k \in 1 .. formatCount |-> ZeroSurfaceFormat ]
                IN  /\ failuresLeft' = IF ok THEN failuresLeft ELSE failuresLeft - 1
                    /\ IF AssertPasses(ok)
                       THEN /\ mWindowColorFormat' = ChosenFormat(surfaceFormats)
                            /\ process' = "running"
                       ELSE /\ process' = "aborted"
                            /\ UNCHANGED mWindowColorFormat
                    /\ UNCHANGED diagnostics
  /\ UNCHANGED << ndebug, frameVars, shaderVars, drawVars, vertexVars, surface, mSetupCommandBuffer,
                  setupCmd, mContext, mShaders, mDescriptorSetLayouts, mDescriptorPool,
                  mDescriptorSets, descriptorUpdate, mPipelines >>

\* a step of setup() of which only the fact that it was made is kept
PlainStep ==
  /\ \E step \in PlainSteps : Enter(step)
  /\ UNCHANGED << ndebug, failuresLeft, frameVars, shaderVars, drawVars, vertexVars, surface, process,
                  diagnostics, mWindowColorFormat, mSetupCommandBuffer, setupCmd, mContext,
                  mShaders, mDescriptorSetLayouts, mDescriptorPool, mDescriptorSets,
                  descriptorUpdate, mPipelines >>

\* vkCmdPipelineBarrier( mSetupCommandBuffer, ... ) with the one-time transition of an
\* image: the command counts only in a buffer that is in the recording state
RecordTransition(cmd, image) ==
  [ cmd EXCEPT !.transitions = Append(@, [ image |-> image,
                                           recording |-> cmd.state = "recording" ]) ]

\* the image whose transition a step of setup() records: mSwapchain.setup( ...,
\* mSetupCommandBuffer, ... ) those of the swapchain images, setupDepthStencil that of
\* mDepthStencil.image
TransitionOf(step) ==
  IF step = "setupSwapChain" THEN "swapchainImages" ELSE "mDepthStencil.image"

\* setupSwapChain and setupDepthStencil
RecordingStep ==
  /\ \E step \in { "setupSwapChain", "setupDepthStencil" } :
       /\ AtStep(step)
       /\ Enter(step)
       /\ setupCmd' = RecordTransition(setupCmd, TransitionOf(step))
  /\ UNCHANGED << ndebug, failuresLeft, frameVars, shaderVars, drawVars, vertexVars, surface, process,
                  diagnostics, mWindowColorFormat, mSetupCommandBuffer, mContext,
                  mShaders, mDescriptorSetLayouts, mDescriptorPool, mDescriptorSets,
                  descriptorUpdate, mPipelines >>

\* vkFreeCommandBuffers on the setup command buffer
FreeSetupCommandBuffer(cmd) ==
  [ cmd EXCEPT !.freed = @ + 1, !.freedPending = @ \/ cmd.pending, !.pending = FALSE,
               !.state = "none" ]

\* createSetupCommandBuffer: free what is left, allocate one buffer, begin it
createSetupCommandBuffer ==
  /\ Enter("createSetupCommandBuffer")
  /\ \E ok \in CallResults :
       LET cmd == IF mSetupCommandBuffer # VK_NULL_HANDLE
                  THEN FreeSetupCommandBuffer(setupCmd) ELSE setupCmd
       IN  /\ setupCmd' = [ cmd EXCEPT !.allocated = @ + 1, !.submits = 0,
                                       !.state = IF ok THEN "recording" ELSE "initial",
                                       !.transitions = << >> ]
           /\ mSetupCommandBuffer' = cmd.allocated + 1
           /\ failuresLeft' = IF ok THEN failuresLeft ELSE failuresLeft - 1
           /\ process' = IF AssertPasses(ok) THEN "running" ELSE "aborted"
  /\ UNCHANGED << ndebug, frameVars, shaderVars, drawVars, vertexVars, surface, diagnostics,
                  mWindowColorFormat, mContext, mShaders, mDescriptorSetLayouts,
                  mDescriptorPool, mDescriptorSets, descriptorUpdate, mPipelines >>

\* flushSetupCommandBuffer with the results ok[1..3] of vkEndCommandBuffer,
\* vkQueueSubmit and vkQueueWaitIdle: each is followed by assert( !err ); a batch that
\* was submitted is complete when vkQueueWaitIdle returns success
Flush(handle, cmd, ok) ==
  IF handle = VK_NULL_HANDLE
  THEN [ handle |-> handle, cmd |-> [ cmd EXCEPT !.flushedNothing = @ + 1 ],
         process |-> "running" ]
  ELSE IF ~AssertPasses(ok[1])
  THEN [ handle |-> handle, cmd |-> [ cmd EXCEPT !.state = "invalid" ], process |-> "aborted" ]
  ELSE LET ended == [ cmd EXCEPT !.state = IF ok[1] /\ @ = "recording" THEN "executable"
                                           ELSE "invalid" ]
           submitted == [ ended EXCEPT !.submits = IF ok[2] THEN @ + 1 ELSE @,
                                       !.pending = ok[2] ]
       IN  IF ~AssertPasses(ok[2])
           THEN [ handle |-> handle, cmd |-> submitted, process |-> "aborted" ]
           ELSE LET waited == [ submitted EXCEPT
                                  !.pending = @ /\ ~ok[3],
                                  !.executed = IF submitted.pending /\ ok[3]
                                                  /\ submitted.state = "executable"
                                               THEN @ \o submitted.transitions ELSE @ ]
                IN  IF ~AssertPasses(ok[3])
                    THEN [ handle |-> handle, cmd |-> waited, process |-> "aborted" ]
                    ELSE [ handle |-> VK_NULL_HANDLE,
                           cmd |-> FreeSetupCommandBuffer(waited),
                           process |-> "running" ]

\* the calls flush makes with these results: none without a buffer, none after a
\* failed assert
FlushCalls(handle, ok) ==
  IF handle = VK_NULL_HANDLE THEN 0
  ELSE IF ~AssertPasses(ok[1]) THEN 1
  ELSE IF ~AssertPasses(ok[2]) THEN 2
  ELSE 3

flushSetupCommandBuffer ==
  /\ Enter("flushSetupCommandBuffer")
  /\ \E ok \in [ 1 .. 3 -> BOOLEAN ] :
       /\ \A k \in 1 .. 3 : k > FlushCalls(mSetupCommandBuffer, ok) => ok[k]
       /\ Errors(ok) <= failuresLeft
       /\ failuresLeft' = failuresLeft - Errors(ok)
       /\ \E r \in { Flush(mSetupCommandBuffer, setupCmd, ok) } :
            /\ mSetupCommandBuffer' = r.handle
            /\ setupCmd' = r.cmd
            /\ process' = r.process
  /\ UNCHANGED << ndebug, frameVars, shaderVars, drawVars, vertexVars, surface, diagnostics,
                  mWindowColorFormat, mContext, mShaders, mDescriptorSetLayouts,
                  mDescriptorPool, mDescriptorSets, descriptorUpdate, mPipelines >>

\* mContext = make_shared<of::vk::Context>(); mContext->setup( ... )
Context_setup ==
  /\ Enter("Context_setup")
  /\ mContext' = "setup"
  /\ UNCHANGED << ndebug, failuresLeft, frameVars, shaderVars, drawVars, vertexVars, surface, process,
                  diagnostics, mWindowColorFormat, mSetupCommandBuffer, setupCmd,
                  mShaders, mDescriptorSetLayouts, mDescriptorPool, mDescriptorSets,
                  descriptorUpdate, mPipelines >>

\* the bindings of a shader in the order getBindings() yields them (a map keyed by name)
BindingsInOrder(bindings) ==
  SelectSeq([ k \in DOMAIN NameOrder |-> bindings[NameOrder[k]] ], LAMBDA b : b.present)

\* Shader::createDescriptorSetLayout: a layout object with the shader's bindings
Shader_createDescriptorSetLayout(bindings) ==
  [ k \in DOMAIN BindingsInOrder(bindings) |-> BindingsInOrder(bindings)[k].binding ]

\* setupShaders: construct the Shader from vert.spv and frag.spv, keep it and its layout
setupShaders ==
  /\ Enter("setupShaders")
  /\ RunShaderSetup
  /\ mShaders' = Append(mShaders, shader'.mUniforms)
  /\ mDescriptorSetLayouts' =
       Append(mDescriptorSetLayouts, Shader_createDescriptorSetLayout(shader'.mUniforms))
  /\ UNCHANGED << surface, process, diagnostics, mWindowColorFormat, mSetupCommandBuffer,
                  setupCmd, mContext, mDescriptorPool, mDescriptorSets, descriptorUpdate,
                  mPipelines >>

\* ------------------------------------------------- setupDescriptorPool
\* mutant: a descriptor type that is already in the map is not counted again
CountDescriptor_FirstOnly(descriptorTypes, type) ==
  [ t \in DOMAIN descriptorTypes \cup { type } |->
      IF t = type THEN 1 ELSE descriptorTypes[t] ]

\* one binding enters std::map<VkDescriptorType, uint32_t> descriptorTypes
CountDescriptor(descriptorTypes, type) ==
  IF type \notin DOMAIN descriptorTypes
  THEN [ t \in DOMAIN descriptorTypes \cup { type } |->
           IF t = type THEN 1 ELSE descriptorTypes[t] ]
  ELSE [ descriptorTypes EXCEPT ![type] = @ + 1 ]

RECURSIVE CountBindings(_, _)
CountBindings(descriptorTypes, bindings) ==
  IF bindings = << >> THEN descriptorTypes
  ELSE CountBindings(CountDescriptor(descriptorTypes, Head(bindings).binding.descriptorType),
                     Tail(bindings))

RECURSIVE CountShaders(_, _)
CountShaders(descriptorTypes, shaders) ==
  IF shaders = << >> THEN descriptorTypes
  ELSE CountShaders(CountBindings(descriptorTypes, BindingsInOrder(Head(shaders))),
                    Tail(shaders))

\* the pool sizes in the order the map yields its entries: ascending descriptor type
RECURSIVE TypeCounts(_)
TypeCounts(descriptorTypes) ==
  IF DOMAIN descriptorTypes = {} THEN << >>
  ELSE LET t == CHOOSE x \in DOMAIN descriptorTypes :
                  \A y \in DOMAIN descriptorTypes : x <= y
       IN  << [ type |-> t, descriptorCount |-> descriptorTypes[t] ] >>
           \o TypeCounts([ y \in DOMAIN descriptorTypes \ { t } |-> descriptorTypes[y] ])

RECURSIVE SumCounts(_)
SumCounts(typeCounts) ==
  IF typeCounts = << >> THEN 0
  ELSE Head(typeCounts).descriptorCount + SumCounts(Tail(typeCounts))

\* VkDescriptorPoolCreateInfo as setupDescriptorPool fills it in
DescriptorPoolInfo(shaders) ==
  LET typeCounts == TypeCounts(CountShaders(<< >>, shaders))
  IN  [ maxSets |-> SumCounts(typeCounts), typeCounts |-> typeCounts ]

\* vkCreateDescriptorPool with maxSets 0 is outside the API's contract: it may return
\* success or an error whatever the failure budget
PoolResults(info) == IF info.maxSets = 0 THEN BOOLEAN ELSE CallResults

setupDescriptorPool ==
  /\ Enter("setupDescriptorPool")
  /\ \E info \in { DescriptorPoolInfo(mShaders) } :
       \E ok \in PoolResults(info) :
         /\ mDescriptorPool' = [ created |-> ok, maxSets |-> info.maxSets,
                                 typeCounts |-> info.typeCounts ]
         /\ failuresLeft' = IF ok \/ info.maxSets = 0 THEN failuresLeft ELSE failuresLeft - 1
         /\ process' = IF AssertPasses(ok) THEN "running" ELSE "aborted"
  /\ UNCHANGED << ndebug, frameVars, shaderVars, drawVars, vertexVars, surface, diagnostics,
                  mWindowColorFormat, mSetupCommandBuffer, setupCmd, mContext, mShaders,
                  mDescriptorSetLayouts, mDescriptorSets, descriptorUpdate, mPipelines >>

\* ------------------------------------------------- setupDescriptorSets
\* the descriptors of a type the layouts ask for
DescriptorsAsked(layouts, type) ==
  Cardinality(UNION { { << i, k >> : k \in { j \in DOMAIN layouts[i] :
                                               layouts[i][j].descriptorType = type } } :
                      i \in DOMAIN layouts })

\* the pool has been sized for one set per layout and for the descriptors in them
PoolHolds(pool, layouts) ==
  /\ Len(layouts) <= pool.maxSets
  /\ \A i \in DOMAIN layouts : \A k \in DOMAIN layouts[i] :
       \E c \in DOMAIN pool.typeCounts :
         /\ pool.typeCounts[c].type = layouts[i][k].descriptorType
         /\ DescriptorsAsked(layouts, layouts[i][k].descriptorType)
              <= pool.typeCounts[c].descriptorCount

\* vkAllocateDescriptorSets: one handle per layout, or an error and no handle
vkAllocateDescriptorSets(pool, layouts, ok) ==
  IF pool.created /\ PoolHolds(pool, layouts) /\ ok
  THEN [ requested |-> TRUE, allocated |-> TRUE, sets |-> [ i \in DOMAIN layouts |-> i ] ]
  ELSE [ requested |-> TRUE, allocated |-> FALSE,
         sets |-> [ i \in DOMAIN layouts |-> VK_NULL_HANDLE ] ]

\* the VkWriteDescriptorSet setupDescriptorSets makes of one binding
WriteFor(b, sets) ==
  [ sType |-> VK_STRUCTURE_TYPE_WRITE_DESCRIPTOR_SET, dstSet |-> sets[1],
    dstBinding |-> b.binding.binding, descriptorCount |-> 1,
    descriptorType |-> b.binding.descriptorType, pBufferInfo |-> mContext ]

\* the loop over the bindings: every write is assigned to writeDescriptorSets[i]; i is
\* incremented once the loop is over
RECURSIVE FillWrites(_, _, _, _)
FillWrites(writeDescriptorSets, bindings, i, sets) ==
  IF bindings = << >> THEN writeDescriptorSets
  ELSE FillWrites([ writeDescriptorSets EXCEPT ![i + 1] = WriteFor(Head(bindings), sets) ],
                  Tail(bindings), i, sets)

\* writeDescriptorSets as handed to vkUpdateDescriptorSets
WriteDescriptorSets(bindings, sets) ==
  FillWrites([ k \in 1 .. Len(bindings) |-> ZeroWrite ], bindings, 0, sets)

\* setupDescriptorSets: allocate one set per layout (the result of the call is not
\* looked at), then write the bindings of mShaders[0] into mDescriptorSets[0]
setupDescriptorSets ==
  /\ Enter("setupDescriptorSets")
  /\ \E ok \in CallResults :
       \E allocation \in { vkAllocateDescriptorSets(mDescriptorPool, mDescriptorSetLayouts, ok) } :
         /\ failuresLeft' = IF ok THEN failuresLeft ELSE failuresLeft - 1
         /\ mDescriptorSets' = allocation
         /\ descriptorUpdate' =
              [ submitted |-> TRUE,
                writes |-> WriteDescriptorSets(BindingsInOrder(mShaders[1]), allocation.sets) ]
  /\ UNCHANGED << ndebug, frameVars, shaderVars, drawVars, vertexVars, surface, process, diagnostics,
                  mWindowColorFormat, mSetupCommandBuffer, setupCmd, mContext, mShaders,
                  mDescriptorSetLayouts, mDescriptorPool, mPipelines >>

\* setupPipelines: the solid and the wireframe pipeline of mShaders[0]
\* GraphicsPipelineState::createPipeline: a new pipeline object made of the state as it
\* is at the call; created is the number of pipelines the device has made before
GraphicsPipelineState_createPipeline(pso, created) ==
  [ handle |-> created + 1, state |-> pso ]

\* defaultPSO of setupPipelines once shader, render pass and layout are assigned
DefaultPSO ==
  [ GraphicsPipelineState EXCEPT !.mShader = 1, !.mRenderPass = "mRenderPass",
                                 !.mLayout = 1 ]

\* setupPipelines asking for the wireframe pipeline without changing the polygon mode
BuildPipelines_SameState ==
  LET defaultPSO == DefaultPSO
  IN  [ solid |-> GraphicsPipelineState_createPipeline(defaultPSO, 0),
        wireframe |-> GraphicsPipelineState_createPipeline(defaultPSO, 1) ]

\* the two createPipeline calls of setupPipelines; polygonMode is set to
\* VK_POLYGON_MODE_LINE between them
BuildPipelines ==
  LET defaultPSO == DefaultPSO
      linePSO == [ defaultPSO EXCEPT !.polygonMode = VK_POLYGON_MODE_LINE ]
  IN  [ solid |-> GraphicsPipelineState_createPipeline(defaultPSO, 0),
        wireframe |-> GraphicsPipelineState_createPipeline(linePSO, 1) ]

setupPipelines ==
  /\ Enter("setupPipelines")
  /\ mPipelines' = BuildPipelines
  /\ UNCHANGED << ndebug, failuresLeft, frameVars, shaderVars, drawVars, vertexVars, surface, process,
                  diagnostics, mWindowColorFormat, mSetupCommandBuffer, setupCmd, mContext,
                  mShaders, mDescriptorSetLayouts, mDescriptorPool, mDescriptorSets,
                  descriptorUpdate >>

\* ------------------------------------------------ setup(): specifications
\* the surfaces setup() is run on: the count query fails, no format, no preferred
\* format, two formats
SetupSurfaces ==
  { [ countQueryOk |-> FALSE, formats |-> << >> ],
    [ countQueryOk |-> TRUE, formats |-> << >> ],
    [ countQueryOk |-> TRUE, formats |-> << VkSurfaceFormatKHR(VK_FORMAT_UNDEFINED, 0) >> ],
    [ countQueryOk |-> TRUE,
      formats |-> << VkSurfaceFormatKHR(37, 0), VkSurfaceFormatKHR(VK_FORMAT_B8G8R8A8_UNORM, 0) >> ] }

\* the files vert.spv and frag.spv may be when setup() runs: missing, one uniform
\* block, two uniform blocks
SetupFiles == { MissingFile, SpvFile(BinaryA), SpvFile(BinaryB) }

\* the program at the call of ofVkRenderer::setup(), in either build, with API calls
\* failing up to MaxFailures times
InitSetup ==
  /\ InitRenderer
  /\ failuresLeft = MaxFailures
  /\ zeroedMemory = TRUE
  /\ sources = SettingsSources
  /\ files \in [ Stages -> SetupFiles ]
  /\ loadsLeft = 1
  /\ shader = FreshShader
  /\ storedLayouts = {}
  /\ lastSetup = NoSetup
  /\ surface \in SetupSurfaces
  /\ lateCallsLeft = MaxLateCalls
  /\ MembersBeforeSetup
  /\ NothingDrawn
  /\ NoVertexInputs

NextSetup ==
  \/ querySurfaceCapabilities
  \/ PlainStep
  \/ RecordingStep
  \/ createSetupCommandBuffer
  \/ flushSetupCommandBuffer
  \/ Context_setup
  \/ setupShaders
  \/ setupDescriptorPool
  \/ setupDescriptorSets
  \/ setupPipelines

SpecSetup == InitSetup /\ [][NextSetup]_vars

\* every list of formats a surface may report
RECURSIVE FormatLists(_)
FormatLists(n) ==
  IF n = 0 THEN { << >> }
  ELSE LET shorter == FormatLists(n - 1)
       IN  shorter \cup { Append(l, VkSurfaceFormatKHR(f, c)) :
                            l \in { x \in shorter : Len(x) = n - 1 },
                            f \in FormatValues, c \in ColorSpaceValues }

Surfaces == [ countQueryOk : BOOLEAN, formats : FormatLists(MaxFormats) ]

\* querySurfaceCapabilities on any surface
InitSurface ==
  /\ InitRenderer
  /\ failuresLeft = MaxFailures
  /\ ShaderNotConstructed
  /\ surface \in Surfaces
  /\ lateCallsLeft = 0
  /\ MembersBeforeSetup
  /\ NothingDrawn
  /\ NoVertexInputs

NextSurface == querySurfaceCapabilities

SpecSurface == InitSurface /\ [][NextSurface]_vars

\* --------------------------------- setupDescriptorPool on any list of shaders
\* the descriptor types a binding may have: uniform buffer (VK_DESCRIPTOR_TYPE_UNIFORM_BUFFER)
\* and dynamic uniform buffer; reflection as it stands yields the second only
DescriptorTypeValues == { 6, VK_DESCRIPTOR_TYPE_UNIFORM_BUFFER_DYNAMIC }

\* a binding as getBindings() holds it under the name
BindingOfType(name, type) ==
  [ present |-> TRUE, name |-> name, set |-> 0, size |-> 16,
    binding |-> [ binding |-> NameIndex(name), descriptorType |-> type,
                  descriptorCount |-> 1, stageFlags |-> VK_SHADER_STAGE_VERTEX_BIT ] ]

\* the tables of bindings a shader may have
BindingTables ==
  { t \in [ UniformNames -> { NoUniform } \cup { BindingOfType(n, ty) :
                                                 n \in UniformNames, ty \in DescriptorTypeValues } ] :
      \A n \in UniformNames : t[n].present => t[n].name = n }

RECURSIVE ShaderLists(_)
ShaderLists(n) ==
  IF n = 0 THEN { << >> }
  ELSE LET shorter == ShaderLists(n - 1)
       IN  shorter \cup { Append(l, t) : l \in { x \in shorter : Len(x) = n - 1 },
                                         t \in BindingTables }

\* the place of a step in setup()
StepIndex(step) == CHOOSE k \in DOMAIN SetupOrder : SetupOrder[k] = step

\* what the device has seen of the setup command buffer once setup() has flushed it
FlushedSetupCmd ==
  LET transitions == << [ image |-> "swapchainImages", recording |-> TRUE ],
                        [ image |-> "mDepthStencil.image", recording |-> TRUE ] >>
  IN  [ NoSetupCmd EXCEPT !.allocated = 1, !.submits = 1, !.freed = 1,
                          !.transitions = transitions, !.executed = transitions ]

\* setup() is about to call setupDescriptorPool, with any shaders in mShaders
InitDescriptorPool ==
  /\ InitRenderer
  /\ failuresLeft = MaxFailures
  /\ ShaderNotConstructed
  /\ surface = [ countQueryOk |-> TRUE,
                 formats |-> << VkSurfaceFormatKHR(VK_FORMAT_B8G8R8A8_UNORM, 0) >> ]
  /\ lateCallsLeft = 0
  /\ process = "running"
  /\ setupPc = StepIndex("setupDescriptorPool") - 1
  /\ setupLog = SubSeq(SetupOrder, 1, StepIndex("setupDescriptorPool") - 1)
  /\ diagnostics = << >>
  /\ mWindowColorFormat = ChosenFormat(surface.formats)
  /\ mSetupCommandBuffer = VK_NULL_HANDLE
  /\ setupCmd = FlushedSetupCmd
  /\ mContext = "setup"
  /\ mShaders \in ShaderLists(MaxShaders)
  /\ mDescriptorSetLayouts =
       [ i \in DOMAIN mShaders |-> Shader_createDescriptorSetLayout(mShaders[i]) ]
  /\ mDescriptorPool = NoPool
  /\ mDescriptorSets = NoDescriptorSets
  /\ descriptorUpdate = NoUpdate
  /\ mPipelines = NoPipelines
  /\ NothingDrawn
  /\ NoVertexInputs

NextDescriptorPool == setupDescriptorPool

SpecDescriptorPool == InitDescriptorPool /\ [][NextDescriptorPool]_vars

\* the step of setup() has been made
StepMade(step) == \E k \in DOMAIN setupLog : setupLog[k] = step

\* every binding of every shader: (index of the shader, name of the block)
AllBindings == { << i, n >> \in (DOMAIN mShaders) \X UniformNames : mShaders[i][n].present }

BindingsOfType(type) ==
  { b \in AllBindings : mShaders[b[1]][b[2]].binding.descriptorType = type }

\* C23: the pool info setupDescriptorPool hands to vkCreateDescriptorPool has one
\* pool-size entry per descriptor type that occurs among the bindings of the shaders,
\* its count is the number of bindings of that type over all shaders, and maxSets is
\* the number of all bindings of all shaders.
C23_PoolSizedByBindingCounts ==
  StepMade("setupDescriptorPool")
  => LET typeCounts == mDescriptorPool.typeCounts
     IN  /\ { typeCounts[c].type : c \in DOMAIN typeCounts }
              = { mShaders[b[1]][b[2]].binding.descriptorType : b \in AllBindings }
         /\ \A c, d \in DOMAIN typeCounts :
              typeCounts[c].type = typeCounts[d].type => c = d
         /\ \A c \in DOMAIN typeCounts :
              typeCounts[c].descriptorCount = Cardinality(BindingsOfType(typeCounts[c].type))
         /\ mDescriptorPool.maxSets = Cardinality(AllBindings)

\* a pool sized for two shaders with bindings of both types, one type occurring twice
C23_Witness ==
  /\ StepMade("setupDescriptorPool")
  /\ Len(mShaders) = 2
  /\ Len(mDescriptorPool.typeCounts) = 2
  /\ mDescriptorPool.maxSets >= 3
  /\ mDescriptorPool.created

\* the writes of the update that are filled in for the binding
WritesFor(b) ==
  { k \in DOMAIN descriptorUpdate.writes :
      LET w == descriptorUpdate.writes[k]
      IN  /\ w.sType = VK_STRUCTURE_TYPE_WRITE_DESCRIPTOR_SET
          /\ w.dstBinding = b.binding.binding
          /\ w.descriptorType = b.binding.descriptorType
          /\ w.descriptorCount = 1
          /\ w.pBufferInfo = "setup" }

\* C24: after setupDescriptorSets every binding reflected from the shader has exactly
\* one descriptor write, with the binding's number and descriptor type and the buffer
\* info of the context, and the update handed to the device consists of one filled-in
\* write per binding.
C24_OneWritePerBinding ==
  StepMade("setupDescriptorSets")
  => LET bindings == BindingsInOrder(mShaders[1])
     IN  /\ descriptorUpdate.submitted
         /\ Len(descriptorUpdate.writes) = Len(bindings)
         /\ \A k \in DOMAIN bindings : Cardinality(WritesFor(bindings[k])) = 1
         /\ \A k \in DOMAIN descriptorUpdate.writes :
              descriptorUpdate.writes[k].sType = VK_STRUCTURE_TYPE_WRITE_DESCRIPTOR_SET

\* vkAllocateDescriptorSets was asked for more than the pool was sized for
PoolExhausted ==
  /\ mDescriptorSets.requested
  /\ ~mDescriptorSets.allocated
  /\ mDescriptorPool.created
  /\ ~PoolHolds(mDescriptorPool, mDescriptorSetLayouts)

\* C25: when the allocation of the descriptor sets fails because the pool is exhausted,
\* setup() ends there: no descriptor write is handed to the device and no pipeline is
\* created.
C25_PoolExhaustionIsFatal ==
  PoolExhausted
  => /\ process # "running"
     /\ ~descriptorUpdate.submitted
     /\ mPipelines = NoPipelines

\* this step is querySurfaceCapabilities
IsSurfaceQuery == AtStep("querySurfaceCapabilities") /\ setupPc' = setupPc + 1

\* C26: when both queries succeed and the surface lists at least one format, the colour
\* format chosen is B8G8R8A8_UNORM if the list is exactly one entry with format
\* UNDEFINED (and setup goes on), the first entry's format otherwise; the colour space
\* chosen is the first entry's.
C26_FormatChosenFromList ==
  [][ ( /\ IsSurfaceQuery
        /\ surface.countQueryOk
        /\ Len(surface.formats) > 0
        /\ failuresLeft' = failuresLeft )
      => /\ process' = "running"
         /\ mWindowColorFormat'.chosen
         /\ mWindowColorFormat'.format =
              IF surface.formats = << VkSurfaceFormatKHR(VK_FORMAT_UNDEFINED,
                                                         surface.formats[1].colorSpace) >>
              THEN VK_FORMAT_B8G8R8A8_UNORM
              ELSE surface.formats[1].format
         /\ mWindowColorFormat'.colorSpace = surface.formats[1].colorSpace
    ]_vars

\* the surface listed UNDEFINED alone and the fallback was chosen
C26_Witness ==
  /\ StepMade("querySurfaceCapabilities")
  /\ process = "running"
  /\ Len(surface.formats) = 1
  /\ surface.formats[1].format = VK_FORMAT_UNDEFINED
  /\ mWindowColorFormat.chosen
  /\ mWindowColorFormat.format = VK_FORMAT_B8G8R8A8_UNORM

\* C27: when a query of the surface formats fails or the surface lists no format,
\* the process ends in querySurfaceCapabilities (with the diagnostic, when it is ended
\* by ofExit): no colour format is chosen and no later step of setup() is made.
C27_NoFormatAbortsSetup ==
  [][ /\ ( /\ IsSurfaceQuery
           /\ ( \/ ~surface.countQueryOk
                \/ Len(surface.formats) = 0
                \/ failuresLeft' < failuresLeft ) )
         => /\ process' \in { "exited", "aborted" }
            /\ process' = "exited" => diagnostics' # << >>
            /\ mWindowColorFormat' = NoFormat
      /\ process # "running" => UNCHANGED << setupLog, mWindowColorFormat >>
    ]_vars

\* this step is a call of flushSetupCommandBuffer
IsFlush ==
  \/ AtStep("flushSetupCommandBuffer") /\ setupPc' = setupPc + 1
  \/ /\ AfterSetup
     /\ lateCallsLeft' = lateCallsLeft - 1
     /\ setupCmd'.allocated = setupCmd.allocated

\* the call returns (no assert ends the process)
IsFlushReturning == IsFlush /\ process' = "running"

\* C28: a call of flushSetupCommandBuffer that finds a setup command buffer has, when
\* it returns, submitted it (once in all since it was created), seen it complete, freed
\* it and set the handle to null; a call that finds no buffer submits and frees nothing.
\* No other step submits the buffer.
C28_SetupBufferSingleUse ==
  [][ /\ IsFlushReturning
         => IF mSetupCommandBuffer = VK_NULL_HANDLE
            THEN /\ mSetupCommandBuffer' = VK_NULL_HANDLE
                 /\ setupCmd'.submits = setupCmd.submits
                 /\ setupCmd'.freed = setupCmd.freed
            ELSE /\ setupCmd.submits = 0
                 /\ setupCmd'.submits = 1
                 /\ ~setupCmd'.pending
                 /\ setupCmd'.freed = setupCmd.freed + 1
                 /\ ~setupCmd'.freedPending
                 /\ mSetupCommandBuffer' = VK_NULL_HANDLE
      /\ ~IsFlush /\ setupCmd'.allocated = setupCmd.allocated
         => setupCmd'.submits = setupCmd.submits
    ]_vars

\* the place of a step among the steps made
Position(step) == CHOOSE k \in DOMAIN setupLog : setupLog[k] = step

\* both steps have been made, the first before the second
MadeBefore(first, second) ==
  /\ StepMade(first)
  /\ StepMade(second)
  /\ Position(first) < Position(second)

\* C29: when setup() writes the descriptor sets, the context has been created and set
\* up, the shader has been constructed (and reflected, if a stage was loaded) and
\* setupDescriptorPool has run; every write that is filled in points to the buffer info
\* of that context; and the pipelines are built only after the descriptor sets have
\* been written.
C29_DescriptorSetsAfterContextShadersPool ==
  /\ descriptorUpdate.submitted => StepMade("setupDescriptorSets")
  /\ StepMade("setupDescriptorSets")
     => /\ MadeBefore("Context_setup", "setupDescriptorSets")
        /\ MadeBefore("setupShaders", "setupDescriptorSets")
        /\ MadeBefore("setupDescriptorPool", "setupDescriptorSets")
        /\ mContext = "setup"
        /\ Len(mShaders) = 1
        /\ lastSetup.count = 1
        /\ (\E st \in Stages : lastSetup.load[st].dirty) => lastSetup.reflected
        /\ \A k \in DOMAIN descriptorUpdate.writes :
             descriptorUpdate.writes[k].sType = VK_STRUCTURE_TYPE_WRITE_DESCRIPTOR_SET
             => descriptorUpdate.writes[k].pBufferInfo = "setup"
  /\ mPipelines # NoPipelines => StepMade("setupPipelines")
  /\ StepMade("setupPipelines")
     => /\ MadeBefore("setupDescriptorSets", "setupPipelines")
        /\ descriptorUpdate.submitted

\* setup() has returned with a descriptor write made and both pipelines built
C29_Witness ==
  /\ process = "running"
  /\ setupPc = Len(SetupOrder)
  /\ mPipelines # NoPipelines
  /\ descriptorUpdate.submitted
  /\ Len(descriptorUpdate.writes) > 0
  /\ mDescriptorSets.allocated

\* ======================================================================= draw()

\* sizeof( ofVec3f ) and the size of an index of VK_INDEX_TYPE_UINT32
VertexBytes == 12
IndexBytes == 4

\* the meshes handed to draw()
Meshes == [ vertices : 0 .. MaxVertices, indices : 0 .. MaxIndices ]

\* the bytes a mesh takes in the context's memory
MeshBytes(mesh) == mesh.vertices * VertexBytes + mesh.indices * IndexBytes

\* the bytes stored in the context's memory by the draws made so far
RECURSIVE StoredBytes(_)
StoredBytes(draws) ==
  IF draws = << >> THEN 0
  ELSE MeshBytes(draws[Len(draws)].mesh) + StoredBytes(SubSeq(draws, 1, Len(draws) - 1))

\* Context::storeMesh: the vertex data is stored at the next free offset, the index
\* data behind it; a mesh without indices gets no index offset
Context_storeMesh(mesh, base) ==
  [ vertexOffsets |-> << base >>,
    indexOffsets |-> IF mesh.indices = 0 THEN << >>
                     ELSE << base + mesh.vertices * VertexBytes >> ]

\* draw() issuing a non-indexed draw whatever storeMesh returned
DrawCall_NeverIndexed(mesh, bufferRefs, indexOffsets) ==
  << [ op |-> "vkCmdDraw", vertexCount |-> mesh.vertices, instanceCount |-> 1,
       firstVertex |-> 0, firstInstance |-> 1 ] >>

\* the end of draw(): a non-indexed draw if there is no index offset, otherwise the
\* index buffer is bound and an indexed draw issued
DrawCall(mesh, bufferRefs, indexOffsets) ==
  IF indexOffsets = << >>
  THEN << [ op |-> "vkCmdDraw", vertexCount |-> mesh.vertices, instanceCount |-> 1,
            firstVertex |-> 0, firstInstance |-> 1 ] >>
  ELSE << [ op |-> "vkCmdBindIndexBuffer", buffer |-> bufferRefs[1],
            offset |-> indexOffsets[1], indexType |-> "VK_INDEX_TYPE_UINT32" ],
          [ op |-> "vkCmdDrawIndexed", indexCount |-> mesh.indices, instanceCount |-> 1,
            firstIndex |-> 0, vertexOffset |-> 0, firstInstance |-> 1 ] >>

\* the render modes of ofPolyRenderMode
ofPolyRenderMode == { "OF_MESH_POINTS", "OF_MESH_WIREFRAME", "OF_MESH_FILL" }

\* draw() choosing the pipeline by the render mode
BoundPipeline_ByRenderMode(renderType) ==
  IF renderType = "OF_MESH_WIREFRAME" THEN mPipelines.wireframe ELSE mPipelines.solid

\* the pipeline draw() binds: mPipelines.solid; renderType is not read
BoundPipeline(renderType) == mPipelines.solid

\* the commands one call of draw() records: the descriptor sets are bound with
\* *mPipelineLayouts[0] (layout 0) and mDescriptorSets[0]; the flags are not read
DrawCommands(mesh, renderType, useColors, useTextures, useNormals, stored) ==
  LET bufferRefs == [ k \in DOMAIN stored.vertexOffsets |-> "contextBuffer" ]
  IN  << [ op |-> "vkCmdBindDescriptorSets", layout |-> 0, firstSet |-> 0,
           sets |-> << mDescriptorSets.sets[1] >>, dynamicOffsetCount |-> 1 ],
         [ op |-> "vkCmdBindPipeline", pipeline |-> BoundPipeline(renderType).handle ],
         [ op |-> "vkCmdBindVertexBuffers", firstBinding |-> 0,
           buffers |-> bufferRefs, offsets |-> stored.vertexOffsets ] >>
      \o DrawCall(mesh, bufferRefs, stored.indexOffsets)

\* draw( mesh_, ... ): called while the frame is recorded; the commands go to the draw
\* buffer of the current image
draw ==
  /\ pc = "Recording"
  /\ drawsLeft > 0
  /\ \E mesh \in Meshes, renderType \in ofPolyRenderMode,
        useColors \in BOOLEAN, useTextures \in BOOLEAN, useNormals \in BOOLEAN :
       drawn' = Append(drawn,
                       [ mesh |-> mesh, renderType |-> renderType,
                         cmd |-> mCurrentImageIndex,
                         commands |-> DrawCommands(mesh, renderType,
                                                   useColors, useTextures, useNormals,
                                                   Context_storeMesh(mesh, StoredBytes(drawn))) ])
  /\ drawsLeft' = drawsLeft - 1
  /\ UNCHANGED << ndebug, failuresLeft, frameVars, shaderVars, setupVars, vertexVars >>

\* the shader of setup(): one block of default matrices, a dynamic uniform buffer
DefaultShader ==
  [ n \in UniformNames |->
      IF NameIndex(n) = 1 THEN BindingOfType(n, VK_DESCRIPTOR_TYPE_UNIFORM_BUFFER_DYNAMIC)
      ELSE NoUniform ]

\* setup() has returned, every call having succeeded
SetupCompleted ==
  /\ surface = [ countQueryOk |-> TRUE,
                 formats |-> << VkSurfaceFormatKHR(VK_FORMAT_B8G8R8A8_UNORM, 0) >> ]
  /\ lateCallsLeft = 0
  /\ process = "running"
  /\ setupPc = Len(SetupOrder)
  /\ setupLog = SetupOrder
  /\ diagnostics = << >>
  /\ mWindowColorFormat = ChosenFormat(surface.formats)
  /\ mSetupCommandBuffer = VK_NULL_HANDLE
  /\ setupCmd = FlushedSetupCmd
  /\ mContext = "setup"
  /\ mShaders = << DefaultShader >>
  /\ mDescriptorSetLayouts =
       [ i \in DOMAIN mShaders |-> Shader_createDescriptorSetLayout(mShaders[i]) ]
  /\ mDescriptorPool = [ created |-> TRUE,
                         maxSets |-> DescriptorPoolInfo(mShaders).maxSets,
                         typeCounts |-> DescriptorPoolInfo(mShaders).typeCounts ]
  /\ mDescriptorSets = vkAllocateDescriptorSets(mDescriptorPool, mDescriptorSetLayouts, TRUE)
  /\ descriptorUpdate =
       [ submitted |-> TRUE,
         writes |-> WriteDescriptorSets(BindingsInOrder(mShaders[1]), mDescriptorSets.sets) ]
  /\ mPipelines = BuildPipelines

\* the application draws up to MaxDraws meshes in the first frame after setup()
InitDraw ==
  /\ InitRenderer
  /\ failuresLeft = 0
  /\ ShaderNotConstructed
  /\ SetupCompleted
  /\ drawsLeft = MaxDraws
  /\ drawn = << >>
  /\ NoVertexInputs

NextDraw ==
  \/ AcquireNextImage
  \/ ResetOrAllocate
  \/ BeginDrawCommandBuffer
  \/ draw

SpecDraw == InitDraw /\ [][NextDraw]_vars

\* the commands of a recorded draw() that have one of the given names
CommandsOf(d, ops) == { k \in DOMAIN d.commands : d.commands[k].op \in ops }

\* C30: every call of draw() records exactly one draw call: for a mesh without index
\* data a vkCmdDraw of the mesh's vertex count and no vkCmdBindIndexBuffer; otherwise a
\* vkCmdBindIndexBuffer followed by a vkCmdDrawIndexed of the mesh's index count.
C30_OneDrawCallPerDraw ==
  /\ Len(drawn) = MaxDraws - drawsLeft
  /\ \A n \in DOMAIN drawn :
       LET d == drawn[n]
           calls == CommandsOf(d, { "vkCmdDraw", "vkCmdDrawIndexed" })
           binds == CommandsOf(d, { "vkCmdBindIndexBuffer" })
       IN  /\ Cardinality(calls) = 1
           /\ \A k \in calls :
                IF d.mesh.indices = 0
                THEN /\ d.commands[k].op = "vkCmdDraw"
                     /\ d.commands[k].vertexCount = d.mesh.vertices
                     /\ binds = {}
                ELSE /\ d.commands[k].op = "vkCmdDrawIndexed"
                     /\ d.commands[k].indexCount = d.mesh.indices
                     /\ Cardinality(binds) = 1
                     /\ \A b \in binds : b < k

\* a mesh without indices and a mesh with indices have both been drawn
C30_Witness ==
  /\ \E n \in DOMAIN drawn : drawn[n].mesh.indices = 0 /\ drawn[n].mesh.vertices > 0
  /\ \E n \in DOMAIN drawn : drawn[n].mesh.indices > 0

\* C31: once setupPipelines has run, the solid and the wireframe pipeline are two
\* different pipeline objects made from the same shader (mShaders[0]), render pass and
\* pipeline layout, the solid one with VK_POLYGON_MODE_FILL and the wireframe one with
\* VK_POLYGON_MODE_LINE; before that, neither exists.
C31_SolidAndWireframeAreDistinct ==
  IF StepMade("setupPipelines")
  THEN /\ mPipelines.solid.handle # VK_NULL_HANDLE
       /\ mPipelines.wireframe.handle # VK_NULL_HANDLE
       /\ mPipelines.solid.handle # mPipelines.wireframe.handle
       /\ mPipelines.solid.state.polygonMode = VK_POLYGON_MODE_FILL
       /\ mPipelines.wireframe.state.polygonMode = VK_POLYGON_MODE_LINE
       /\ mPipelines.solid.state # mPipelines.wireframe.state
       /\ \A p \in { mPipelines.solid, mPipelines.wireframe } :
            /\ p.state.mShader = 1
            /\ p.state.mRenderPass = "mRenderPass"
            /\ p.state.mLayout = 1
  ELSE mPipelines = NoPipelines

\* setup() has returned with both pipelines built for a shader that has a binding
C31_Witness ==
  /\ process = "running"
  /\ StepMade("setupPipelines")
  /\ mPipelines.wireframe.state.polygonMode = VK_POLYGON_MODE_LINE
  /\ \E n \in DOMAIN mShaders[1] : mShaders[1][n].present

\* ======================================================= processVertexInputs

\* number of inputs of the vertex stage
MaxInputs == 2

SpvDecorationLocation == 30
SpvDecorationBinding == 33
VK_FORMAT_R32G32B32_SFLOAT == 106
VK_FORMAT_R32G32B32A32_SFLOAT == 109

\* a vertex-stage input: its decorations (the set bits of get_decoration_mask), the value
\* of its location decoration (0 without one, as get_decoration gives), and its type
StageInput(decorations, location, vecsize) ==
  [ decorations |-> decorations, location |-> location,
    width |-> 32, vecsize |-> vecsize, columns |-> 1 ]

\* the inputs a vertex shader may declare: with or without a location, locations in any
\* order and also repeated or beyond the number of inputs; vec2, vec3 and vec4
StageInputValues ==
  { StageInput({ SpvDecorationBinding }, 0, v) : v \in 2 .. 4 }
  \cup { StageInput({ SpvDecorationLocation }, l, v) : l \in 0 .. MaxInputs, v \in 2 .. 4 }

RECURSIVE StageInputLists(_)
StageInputLists(n) ==
  IF n = 0 THEN { << >> }
  ELSE LET shorter == StageInputLists(n - 1)
       IN  shorter \cup { Append(l, x) : l \in { y \in shorter : Len(y) = n - 1 },
                                         x \in StageInputValues }

\* std::vector::resize: the elements there are kept, new ones are value-initialised
Resize(vector, n, zero) ==
  [ k \in 1 .. n |-> IF k <= Len(vector) THEN vector[k] ELSE zero ]

ZeroAttribute == [ location |-> 0, binding |-> 0, format |-> VK_FORMAT_UNDEFINED ]
ZeroBindingDescription == [ binding |-> 0, stride |-> 0, inputRate |-> "VK_VERTEX_INPUT_RATE_VERTEX" ]

\* the location of input i (counted from 0) that ignores the location decoration
LocationOf_DeclarationOrder(attributeInput, i) == i

\* uint32_t location = i, replaced by the location decoration if the input has one
LocationOf(attributeInput, i) ==
  IF SpvDecorationLocation \in attributeInput.decorations
  THEN attributeInput.location
  ELSE i

\* the format the switch over vecsize assigns; other sizes leave the format as it is
FormatOf(attributeInput, format) ==
  CASE attributeInput.vecsize = 3 -> VK_FORMAT_R32G32B32_SFLOAT
    [] attributeInput.vecsize = 4 -> VK_FORMAT_R32G32B32A32_SFLOAT
    [] OTHER -> format

\* the body of the loop for input i (counted from 0)
ProcessInput(info, inputs, i) ==
  LET attributeInput == inputs[i + 1]
      location == LocationOf(attributeInput, i)
  IN  [ info EXCEPT
          !.bindingDescription[i + 1] =
             [ binding |-> location,
               stride |-> (attributeInput.width \div 8) * attributeInput.vecsize
                            * attributeInput.columns,
               inputRate |-> "VK_VERTEX_INPUT_RATE_VERTEX" ],
          !.attribute[i + 1] =
             [ location |-> location, binding |-> location,
               format |-> FormatOf(attributeInput, @.format) ] ]

RECURSIVE ProcessInputsFrom(_, _, _)
ProcessInputsFrom(info, inputs, i) ==
  IF i = Len(inputs) THEN info
  ELSE ProcessInputsFrom(ProcessInput(info, inputs, i), inputs, i + 1)

\* of::vk::Shader::processVertexInputs( shaderResources, compiler )
Shader_processVertexInputs(info, inputs) ==
  LET resized == [ info EXCEPT
                     !.attribute = Resize(@, Len(inputs), ZeroAttribute),
                     !.bindingDescription = Resize(@, Len(inputs), ZeroBindingDescription) ]
      filled == ProcessInputsFrom(resized, inputs, 0)
  IN  [ filled EXCEPT !.vi = [ set |-> TRUE,
                               vertexBindingDescriptionCount |-> Len(filled.bindingDescription),
                               vertexAttributeDescriptionCount |-> Len(filled.attribute) ] ]

\* reflect() reaching the vertex stage of a Shader for the first time
processVertexInputs ==
  /\ mVertexInfo = NoVertexInfo
  /\ mVertexInfo' = Shader_processVertexInputs(mVertexInfo, stageInputs)
  /\ UNCHANGED << ndebug, failuresLeft, frameVars, shaderVars, setupVars, drawVars,
                  stageInputs >>

InitVertexInputs ==
  /\ InitShaderOwner
  /\ failuresLeft = 0
  /\ ShaderNotConstructed
  /\ stageInputs \in StageInputLists(MaxInputs)
  /\ mVertexInfo = NoVertexInfo

NextVertexInputs == processVertexInputs

SpecVertexInputs == InitVertexInputs /\ [][NextVertexInputs]_vars

\* C32: once processVertexInputs has run, every input has an attribute and a binding
\* description at its position; the attribute's location and binding are both the
\* input's location decoration, or its position in declaration order (from 0) if it has
\* none, and the binding description at that position has the same binding number.
C32_LocationIsAttributeLocationAndBinding ==
  mVertexInfo # NoVertexInfo
  => /\ Len(mVertexInfo.attribute) = Len(stageInputs)
     /\ Len(mVertexInfo.bindingDescription) = Len(stageInputs)
     /\ \A k \in DOMAIN stageInputs :
          LET expected == IF SpvDecorationLocation \in stageInputs[k].decorations
                          THEN stageInputs[k].location
                          ELSE k - 1
          IN  /\ mVertexInfo.attribute[k].location = expected
              /\ mVertexInfo.attribute[k].binding = expected
              /\ mVertexInfo.bindingDescription[k].binding = expected

\* processVertexInputs has run on two inputs, the first with a location decoration that
\* is not its position, the second without one
C32_Witness ==
  /\ mVertexInfo # NoVertexInfo
  /\ Len(stageInputs) = 2
  /\ SpvDecorationLocation \in stageInputs[1].decorations
  /\ stageInputs[1].location = 2
  /\ SpvDecorationLocation \notin stageInputs[2].decorations
  /\ mVertexInfo.attribute[2].location = 1

\* everything setup() needed to be done on the images before a frame: both transitions
TransitionsOfSetup ==
  << [ image |-> "swapchainImages", recording |-> TRUE ],
     [ image |-> "mDepthStencil.image", recording |-> TRUE ] >>

\* C33: every image transition of setup() is recorded into the setup command buffer
\* while that buffer is recording, after createSetupCommandBuffer and before
\* flushSetupCommandBuffer; and once flushSetupCommandBuffer has returned in setup(), and
\* so before any frame, the buffer with both transitions has been submitted and has
\* completed.
C33_SetupTransitionsRecordedAndCompleted ==
  /\ \A k \in DOMAIN setupCmd.transitions : setupCmd.transitions[k].recording
  /\ \A step \in { "setupSwapChain", "setupDepthStencil" } :
       /\ StepMade(step) => MadeBefore("createSetupCommandBuffer", step)
       /\ (StepMade(step) /\ StepMade("flushSetupCommandBuffer"))
            => MadeBefore(step, "flushSetupCommandBuffer")
  /\ StepMade("flushSetupCommandBuffer") => StepMade("setupDepthStencil")
  /\ (StepMade("flushSetupCommandBuffer") /\ process = "running")
       => /\ SubSeq(setupCmd.executed, 1, 2) = TransitionsOfSetup
          /\ ~setupCmd.pending

\* a submission of the command buffer is still in the queue: kind names the buffer, and
\* for a draw buffer index is its place in mDrawCmdBuffer (from 0)
Pending(kind, index) ==
  \E k \in DOMAIN queue : queue[k].kind = kind /\ queue[k].buffer = index

\* the number of times the CPU thread made the step in this frame
TimesInFrame(steps, step) == Cardinality({ k \in DOMAIN steps : steps[k] = step })

\* C34: a draw command buffer is not reset or begun, and the pre-present and the
\* post-present buffer are not begun, while a submission of that buffer is still pending
\* on the queue; the frame loop allocates no pre-present or post-present buffer, and a
\* frame that finishRender completes has recorded and submitted each of the two exactly
\* once.
C34_NoBufferReusedWhilePending ==
  [][ /\ (pc = "sr_reset" /\ pc' = "sr_begin" /\ Len(mDrawCmdBuffer) = ImageCount)
           => ~Pending("draw", swapIdx)
      /\ (pc = "sr_begin" /\ pc' = "Recording") => ~Pending("draw", swapIdx)
      /\ (pc = "fr_pre" /\ pc' = "fr_present") => ~Pending("pre", 0)
      /\ (pc = "fr_post" /\ pc' = "fr_wait") => ~Pending("post", 0)
      /\ (pc = "fr_wait" /\ pc' = "Idle")
           => /\ TimesInFrame(log', "submitPrePresent") = 1
              /\ TimesInFrame(log', "submitPostPresent") = 1
    ]_vars

\* the step completes a draw batch, which signals renderComplete
DrawBatchCompletes ==
  \E k \in DOMAIN queue : queue[k].kind = "draw" /\ queue' = RemoveAt(queue, k)

\* the step is the presentation engine taking a present request, which waits on
\* renderComplete
PresentRequestTaken ==
  \E k \in DOMAIN queue : queue[k].kind = "present" /\ queue' = RemoveAt(queue, k)

\* C35: the signals and waits of each semaphore alternate. presentComplete is handed to
\* acquire only when it is unsignaled and no signal of it is outstanding, it is
\* signaled only when unsignaled and the draw batch that waits on it finds it signaled;
\* renderComplete is signaled by a draw batch only when unsignaled and with no other
\* draw batch outstanding, and the present request that waits on it finds it signaled;
\* a frame whose calls all succeeded ends with both semaphores unsignaled.
C35_SemaphoreSignalsAndWaitsAlternate ==
  [][ /\ (pc = "Idle" /\ pc' # "Idle" /\ acqErr' = "SUCCESS")
           => (acqPending = 0 /\ ~sem.presentComplete)
      /\ (acqPending # 0 /\ acqPending' = 0) => ~sem.presentComplete
      /\ (pc = "fr_submit" /\ Len(queue') > Len(queue))
           => (~sem.renderComplete /\ \A k \in DOMAIN queue : queue[k].kind # "draw")
      /\ DrawBatchCompletes
           => (sem.presentComplete /\ ~sem'.presentComplete
               /\ ~sem.renderComplete /\ sem'.renderComplete)
      /\ PresentRequestTaken => (sem.renderComplete /\ ~sem'.renderComplete)
      /\ (pc = "fr_wait" /\ pc' = "Idle" /\ lastFailure' = "none" /\ acqErr = "SUCCESS")
           => (~sem.presentComplete /\ ~sem.renderComplete /\ acqPending = 0)
    ]_vars

\* the step submits a command buffer to the queue
SubmitsCommands ==
  /\ Len(queue') = Len(queue) + 1
  /\ queue'[Len(queue')].kind \in { "draw", "pre", "post" }

\* C36: whenever a command buffer that accesses a swapchain image is submitted, the
\* application owns that image: it has been acquired and not yet handed to the
\* presentation engine by queuePresent.
C36_SubmitsOnlyToOwnedImages ==
  [][ SubmitsCommands
        => LET img == queue'[Len(queue')].img
           IN  img \in Images => owner[img] = "app"
    ]_vars

\* C37: once setupDescriptorPool has run, the pool info it built holds what
\* setupDescriptorSets asks for: one descriptor set per layout of mDescriptorSetLayouts
\* within maxSets, and the descriptors of those layouts within the per-type counts.
C37_PoolLargeEnoughForSets ==
  StepMade("setupDescriptorPool") => PoolHolds(mDescriptorPool, mDescriptorSetLayouts)

\* C38: after buildSetLayouts, every set index a sparse-set error names as missing is
\* absent from the observed set indices: no index for which a set was reflected is
\* reported as missing.
C38_ReportedMissingSetsAreAbsent ==
  lastSetup.built =>
    \A n \in SparseSetReports(lastSetup) : n \notin ObservedSets(shader.mUniforms)

\* the commands of the given kind in the entry d of drawn
Bound(d, op) == { d.commands[k] : k \in CommandsOf(d, { op }) }

\* C39: every call of draw() binds the solid pipeline (never the wireframe one),
\* descriptor set 0 and pipeline layout 0, whatever the render mode and the flags; it
\* records into the draw command buffer of the acquired image only, and changes nothing
\* of the renderer but that command buffer and the context's frame memory.
C39_DrawBindsSolidIntoCurrentBuffer ==
  [][ drawn' # drawn =>
        /\ Len(drawn') = Len(drawn) + 1
        /\ SubSeq(drawn', 1, Len(drawn)) = drawn
        /\ LET d == drawn'[Len(drawn')]
           IN  /\ d.cmd = mCurrentImageIndex
               /\ owner[d.cmd] = "app"
               /\ Cardinality(CommandsOf(d, { "vkCmdBindPipeline" })) = 1
               /\ \A c \in Bound(d, "vkCmdBindPipeline") :
                    /\ c.pipeline = mPipelines.solid.handle
                    /\ c.pipeline # mPipelines.wireframe.handle
               /\ Cardinality(CommandsOf(d, { "vkCmdBindDescriptorSets" })) = 1
               /\ \A c \in Bound(d, "vkCmdBindDescriptorSets") :
                    /\ c.layout = 0
                    /\ c.firstSet = 0
                    /\ c.sets = << mDescriptorSets.sets[1] >>
        /\ UNCHANGED << ndebug, failuresLeft, frameVars, shaderVars, setupVars, vertexVars >>
    ]_vars

\* meshes have been drawn in wireframe mode and in fill mode into the acquired image
C39_Witness ==
  /\ pc = "Recording"
  /\ \E n \in DOMAIN drawn :
       drawn[n].renderType = "OF_MESH_WIREFRAME" /\ drawn[n].cmd = mCurrentImageIndex
  /\ \E n \in DOMAIN drawn : drawn[n].renderType = "OF_MESH_FILL"

====
